---- MODULE Spec2Model ----
(***************************************************************************)
(* A model of the ZigBee smart-home scenario programs                      *)
(*   zigbee-extended-sim.cc            (variant "ext")                     *)
(*   smart-home-zigbee-complete-ver3.cc (variant "ver3")                   *)
(*   smart-home-zigbee-complete-ver2.cc (variant "ver2")                   *)
(*   smart-home-zigbee-complete.cc      (variant "v1")                     *)
(* as state machines driven by the discrete-event scheduler.               *)
(*                                                                         *)
(* Units.  Virtual time is counted in ticks, TicksPerMs ticks to the       *)
(* millisecond (ns-3 counts nanoseconds; the model keeps a sub-millisecond *)
(* resolution so that Time::GetMilliSeconds() really truncates).  Powers   *)
(* and losses are integers in hundredths of a dB (cdB), distances in       *)
(* centimetres, the fading coefficient in hundredths, the path-loss        *)
(* exponent in tenths.  log10 is tabulated for the values the model uses.  *)
(*                                                                         *)
(* The ZigBee stack, the packet factory and the scheduler are ns-3 code;   *)
(* the stack is modelled as an environment that answers each request with  *)
(* callbacks after a delay, and may fail or lose at most MaxFaults         *)
(* requests in a run.                                                      *)
(***************************************************************************)
EXTENDS Integers, Sequences, FiniteSets, TLC

VARIABLES
    variant,    \* which scenario program runs: "ext" or "ver3"
    cfg,        \* the command-line configuration after cmd.Parse
    now,        \* Simulator::Now(), in ticks
    queue,      \* the scheduler's pending events
    nextSeq,    \* the scheduler's insertion counter (ties run in insertion order)
    running,    \* "running", "stopped" (Simulator::Stop ran), "crashed", or
                \* "rejected" (main returned 1 on an invalid configuration)
    stats,      \* g_stats: the cumulative counters and the two timestamps
    sendTimes,  \* g_stats.sendTimes / packetSendTimes: packet uid -> send time
    delays,     \* g_stats.delaysSamples / delays: latency samples, in ms
    samples,    \* g_stats channel sample lists: snr, rxPower, fading, distance
    globalUid,  \* Packet::m_globalUid, the uid the next Create<Packet> returns
    rngDraws,   \* number of normal variates drawn from g_rng / gen so far
    seed,       \* the value g_rng / gen was seeded with
    twin,       \* a second run of the same program on the same configuration
    stack,      \* what the external stack has been asked and has decided
    faults,     \* number of failures the stack has injected so far
    report,     \* the snapshot PrintResults / PrintPerformanceMetrics printed
    csv         \* the snapshot ExportCSV wrote

vars == <<variant, cfg, now, queue, nextSeq, running, stats, sendTimes, delays,
          samples, globalUid, rngDraws, seed, twin, stack, faults, report, csv>>

----------------------------------------------------------------------------
(* Bounds of the model *)

\* ticks per millisecond: the resolution of virtual time
TicksPerMs == 2
\* stack failures (a failed confirm, a lost packet) per run
MaxFaults == 2
\* application packets the ext scenario schedules (--packets)
NumPackets == 2

TicksPerSecond == 1000 * TicksPerMs

Seconds(s) == s * TicksPerSecond

\* Time::GetMilliSeconds(): the whole milliseconds of a non-negative time
GetMilliSeconds(t) == t \div TicksPerMs

\* delays after which the stack indicates a packet at a receiver
StackDelays == {1, TicksPerMs + 1}
\* delay after which the stack confirms a data request to the sender
ConfirmDelay == TicksPerMs
\* delay after which the stack confirms a formation, discovery, join or route request
LifecycleDelay == TicksPerSecond \div 10
\* delay of a discovery confirm after a long scan: past the next node's
\* discovery request, which main() schedules 2 s later
LongScanDelay == 2 * TicksPerSecond + LifecycleDelay

----------------------------------------------------------------------------
(* Program constants, zigbee-extended-sim.cc (struct ChannelConfig) *)

txPowerDbm == 400
refDistance == 100
refPathLossDb == 4077
noiseFigureDb == 300
sensitivityDbm == -9700
snrThresholdDb == 300
\* GenerateNoisePower's value when noise is disabled
noiseDisabledDbm == -20000
\* 20*log10(1e-10), the floor of fadingDb in SimulateChannel
fadingFloorDb == -20000
\* the deep-fade limit on the fading coefficient (0.5)
deepFade == 50

(* Program constants, smart-home-zigbee-complete-ver3.cc *)

NOISE_FLOOR_DBM == -9500
TX_POWER_DBM == 0
REFERENCE_DISTANCE == 100
PATH_LOSS_EXPONENT == 30
SNR_THRESHOLD_DB == 600
\* PL(d0) in CalculatePathLoss
referenceLossDb == 4000
\* the standard deviation GenerateGaussianNoise scales its variate by
noiseSigmaDb == 3

\* Packet::m_globalUid and the uid read from it are uint32_t: uids wrap at
\* 2^32.  A uid is held as its two 16-bit halves <<high, low>>.
UidHalf == 65536

\* 32-bit unsigned addition of two uids
AddUid(a, b) ==
    LET low == a[2] + b[2]
        high == a[1] + b[1] + (low \div UidHalf)
    IN  <<high % UidHalf, low % UidHalf>>

\* the uids 0 and 1
Uid0 == <<0, 0>>
Uid1 == <<0, 1>>

----------------------------------------------------------------------------
(* Random variates and tabulated logarithms *)

\* values a Rayleigh amplitude draw may take (hundredths): a deep fade and no fade
FadingSamples == {40, 100}
\* values a standard normal draw may take (hundredths)
NoiseSamples == {-200, 100}

\* 1000 * log10(d / 1 m) for the distances d (cm) that occur
Log10Milli(d) ==
    CASE d = 100 -> 0
      [] d = 1000 -> 1000
      [] d = 6000 -> 1778
      [] d = 8000 -> 1903
      [] d = 10000 -> 2000
      [] d = 16000 -> 2204
      [] d = 17088 -> 2233

\* 20 * log10(coef) in cdB for the coefficients (hundredths) that occur
Log10Fading(coef) ==
    CASE coef = 40 -> -796
      [] coef = 100 -> 0

Max(a, b) == IF a >= b THEN a ELSE b

----------------------------------------------------------------------------
(* Channel model of zigbee-extended-sim.cc *)

\* GenerateRayleighFading: 1.0 without a draw when fading is disabled
GenerateRayleighFading(c, draw) ==
    IF ~c.enableFading THEN 100 ELSE draw

\* number of variates GenerateRayleighFading consumes
FadingDraws(c) == IF ~c.enableFading THEN 0 ELSE 2

\* GenerateNoisePower without the test of enableNoise
GenerateNoisePowerAlwaysOn(c, draw) ==
    c.noiseFloorDbm + noiseFigureDb + draw

\* GenerateNoisePower: -200 dBm when noise is disabled
GenerateNoisePower(c, draw) ==
    IF ~c.enableNoise THEN noiseDisabledDbm
    ELSE c.noiseFloorDbm + noiseFigureDb + draw

NoiseDraws(c) == IF ~c.enableNoise THEN 0 ELSE 1

\* CalculatePathLoss without the clamp, the logarithm of a distance at or
\* below 0 taken as that of the shortest distance a double can hold
CalculatePathLossUnclamped(c, distance) ==
    LET log == IF distance <= 0 THEN -308000
               ELSE IF distance < refDistance THEN -301
               ELSE Log10Milli(distance)
    IN  refPathLossDb + (c.pathLossExp * log) \div 10

\* CalculatePathLoss: PL(d0) + 10 n log10(max(d, d0) / d0)
CalculatePathLoss(c, distance) ==
    LET d == Max(distance, refDistance)
    IN  refPathLossDb + (c.pathLossExp * Log10Milli(d)) \div 10

\* 20*log10(max(fadingCoef, 1e-10))
FadingDb(coef) == IF coef = 0 THEN fadingFloorDb ELSE Log10Fading(coef)

\* the decision with the sensitivity comparison reversed
ChannelVerdictFloorReversed(c, rxPowerDbm, snrDb, fadingCoef) ==
    IF rxPowerDbm > sensitivityDbm THEN "DroppedBySensitivity"
    ELSE IF snrDb < snrThresholdDb
         THEN IF fadingCoef < deepFade /\ c.enableFading
              THEN "DroppedByFading"
              ELSE "DroppedByNoise"
         ELSE "Delivered"

\* the decision with the SNR test ahead of the sensitivity test
ChannelVerdictSnrFirst(c, rxPowerDbm, snrDb, fadingCoef) ==
    IF snrDb < snrThresholdDb
    THEN IF fadingCoef < deepFade /\ c.enableFading
         THEN "DroppedByFading"
         ELSE "DroppedByNoise"
    ELSE IF rxPowerDbm < sensitivityDbm THEN "DroppedBySensitivity"
         ELSE "Delivered"

\* SimulateChannel, step 7: the decision, first match wins
ChannelVerdict(c, rxPowerDbm, snrDb, fadingCoef) ==
    IF rxPowerDbm < sensitivityDbm THEN "DroppedBySensitivity"
    ELSE IF snrDb < snrThresholdDb
         THEN IF fadingCoef < deepFade /\ c.enableFading
              THEN "DroppedByFading"
              ELSE "DroppedByNoise"
         ELSE "Delivered"

\* SimulateChannel, steps 1 to 7: the channel sample of one transmission
SimulateChannel(c, fadingDraw, noiseDraw) ==
    LET distance == c.nodeDistance
        pathLossDb == CalculatePathLoss(c, distance)
        fadingCoef == GenerateRayleighFading(c, fadingDraw)
        fadingDb == FadingDb(fadingCoef)
        rxPowerDbm == txPowerDbm - pathLossDb + fadingDb
        noisePowerDbm == GenerateNoisePower(c, noiseDraw)
        snrDb == rxPowerDbm - noisePowerDbm
    IN  [distance |-> distance, fadingCoef |-> fadingCoef,
         rxPowerDbm |-> rxPowerDbm, noisePowerDbm |-> noisePowerDbm,
         snrDb |-> snrDb,
         outcome |-> ChannelVerdict(c, rxPowerDbm, snrDb, fadingCoef)]

----------------------------------------------------------------------------
(* Channel model of smart-home-zigbee-complete-ver3.cc *)

\* distance (cm) of node n from the coordinator on the 3-wide 80 m x 60 m grid
GridDistance(n) ==
    CASE n = 1 -> 8000
      [] n = 2 -> 16000
      [] n = 3 -> 6000
      [] n = 4 -> 10000
      [] n = 5 -> 17088

\* CalculatePathLoss (ver3): 40 + 10 * 3.0 * log10(max(d, 1) / 1)
CalculatePathLossV3(distance) ==
    LET d == IF distance < REFERENCE_DISTANCE THEN REFERENCE_DISTANCE ELSE distance
    IN  referenceLossDb + (PATH_LOSS_EXPONENT * Log10Milli(d)) \div 10

\* GenerateGaussianNoise: the noise floor plus a variate of 3 dB deviation
GenerateGaussianNoise(draw) == NOISE_FLOOR_DBM + draw * noiseSigmaDb

\* CalculateReceivedPower: TX power - path loss + 20 log10(fading), no floor
CalculateReceivedPower(distance, fadingCoeff) ==
    TX_POWER_DBM - CalculatePathLossV3(distance) + Log10Fading(fadingCoeff)

\* SimulateChannelEffects: the decision; ver3 has no sensitivity floor and
\* does not read the enableNoise / enableFading options
ChannelVerdictV3(snrDb, fadingCoeff) ==
    IF snrDb < SNR_THRESHOLD_DB
    THEN IF fadingCoeff < deepFade THEN "DroppedByFading" ELSE "DroppedByNoise"
    ELSE "Delivered"

SimulateChannelEffects(srcNodeId, fadingDraw, noiseDraw) ==
    LET distance == GridDistance(srcNodeId)
        rxPowerDbm == CalculateReceivedPower(distance, fadingDraw)
        noisePowerDbm == GenerateGaussianNoise(noiseDraw)
        snrDb == rxPowerDbm - noisePowerDbm
    IN  [distance |-> distance, fadingCoef |-> fadingDraw,
         rxPowerDbm |-> rxPowerDbm, noisePowerDbm |-> noisePowerDbm,
         snrDb |-> snrDb, outcome |-> ChannelVerdictV3(snrDb, fadingDraw)]

----------------------------------------------------------------------------
(* The discrete-event scheduler (ns-3 Simulator) *)

\* an event: run `kind` at `time`; `seq` orders events of equal time
Event(time, kind, node) ==
    [time |-> time, seq |-> 0, kind |-> kind, node |-> node,
     uid |-> Uid0, group |-> 0, endpoint |-> 0, status |-> "SUCCESS", nets |-> 0]

\* Simulator::Schedule of a list of events, in the order given
Insert(q, s, evs) ==
    q \cup { [evs[i] EXCEPT !.seq = s + i - 1] : i \in 1..Len(evs) }

\* the event Simulator::Run executes next: earliest time, then insertion order
NextEvent ==
    CHOOSE e \in queue :
        \A f \in queue : e.time < f.time \/ (e.time = f.time /\ e.seq <= f.seq)

\* the scheduler is about to invoke a handler of the given kind
Dispatch(kind) ==
    /\ running = "running"
    /\ queue # {}
    /\ NextEvent.kind = kind

\* the elements of a set of integers, in increasing order
RECURSIVE SortedSeq(_)
SortedSeq(S) ==
    IF S = {} THEN << >>
    ELSE LET m == CHOOSE x \in S : \A y \in S : x <= y
         IN  <<m>> \o SortedSeq(S \ {m})

----------------------------------------------------------------------------
(* Configurations and the schedule main() builds before Simulator::Run *)

GROUP_LIVING_ROOM == 1
GROUP_BEDROOM == 2
GROUP_ALL_LIGHTS == 3

\* zigbee-extended-sim configurations: a near link, a link at the sensitivity
\* edge, a steeper path loss, and the noise / fading switches.  simTime 16 puts
\* the last send at simTime - 1 as the default configuration does (21 + 49*2 = 119).
ExtBase ==
    [numNodes |-> 2, simTime |-> 16, numPackets |-> NumPackets,
     packetInterval |-> 2, enableNoise |-> TRUE, enableFading |-> TRUE,
     noiseFloorDbm |-> -10000, nodeDistance |-> 1000, pathLossExp |-> 30,
     manyToOne |-> TRUE]

ExtConfigs ==
    { ExtBase,
      [ExtBase EXCEPT !.nodeDistance = 10000, !.simTime = 20],
      [ExtBase EXCEPT !.pathLossExp = 50, !.simTime = 20],
      [ExtBase EXCEPT !.nodeDistance = 10000, !.enableNoise = FALSE, !.simTime = 20],
      [ExtBase EXCEPT !.enableNoise = FALSE, !.enableFading = FALSE, !.simTime = 20],
      \* out of range: 100 m at exponent 5.0, noise and fading disabled
      [ExtBase EXCEPT !.enableNoise = FALSE, !.enableFading = FALSE, !.simTime = 20,
                      !.nodeDistance = 10000, !.pathLossExp = 50],
      \* 3 nodes at the reference distance, noise and fading disabled
      [ExtBase EXCEPT !.enableNoise = FALSE, !.enableFading = FALSE, !.simTime = 20,
                      !.numNodes = 3, !.nodeDistance = refDistance],
      \* --pathLossExp=-2.0, noise and fading disabled
      [ExtBase EXCEPT !.enableNoise = FALSE, !.enableFading = FALSE, !.simTime = 20,
                      !.pathLossExp = -20],
      \* --time=15: the second send is scheduled at the stop time, noise and
      \* fading disabled
      [ExtBase EXCEPT !.enableNoise = FALSE, !.enableFading = FALSE, !.simTime = 15],
      \* --distance=0: the nodes share a position, noise and fading disabled
      [ExtBase EXCEPT !.enableNoise = FALSE, !.enableFading = FALSE, !.simTime = 20,
                      !.nodeDistance = 0] }

\* ver3 configurations: 4 nodes (one sensor, no groups), 6 nodes (two lights),
\* 4 nodes with --enableNoise=false --enableFading=false, 2 nodes, and the
\* minimum topology with --manyToOne=false
Ver3Configs ==
    { [ExtBase EXCEPT !.numNodes = 4, !.simTime = 50],
      [ExtBase EXCEPT !.numNodes = 6, !.simTime = 45],
      [ExtBase EXCEPT !.numNodes = 4, !.simTime = 50,
                      !.enableNoise = FALSE, !.enableFading = FALSE],
      \* --numNodes=2
      [ExtBase EXCEPT !.numNodes = 2, !.simTime = 50],
      [ExtBase EXCEPT !.numNodes = 3, !.simTime = 14, !.manyToOne = FALSE] }

\* main() of zigbee-extended-sim.cc from "NETWORK FORMATION" to Simulator::Stop
MainExt(c) ==
    LET joinTime == 3 + 2 * (c.numNodes - 1)
        routeTime == joinTime + 3
        dataStartTime == routeTime + 5
        sensor == c.numNodes - 1
    IN  <<Event(Seconds(1), "NlmeNetworkFormationRequest", 0)>>
        \o [i \in 1..(c.numNodes - 1) |->
              Event(Seconds(3 + 2 * (i - 1)), "NlmeNetworkDiscoveryRequest", i)]
        \o <<Event(Seconds(routeTime), "NlmeRouteDiscoveryRequest", 0)>>
        \o [i \in 1..c.numPackets |->
              Event(Seconds(dataStartTime + (i - 1) * c.packetInterval),
                    "SendSensorData", sensor)]
        \o <<Event(Seconds(c.simTime) - Seconds(1), "PrintResults", 0),
             Event(Seconds(c.simTime) - Seconds(1) \div 2, "ExportCSV", 0),
             Event(Seconds(c.simTime), "Stop", 0)>>

Min(a, b) == IF a <= b THEN a ELSE b

\* main() of smart-home-zigbee-complete-ver3.cc, for 3 <= numNodes <= 7
MainVer3(c) ==
    LET joinTime == 3 + 2 * (c.numNodes - 1)
        groupTime == joinTime + 2
        routingTime == groupTime + 2
        dataTime == routingTime + 5
        tenth == Seconds(1) \div 10
        numReports == Min(10, (c.simTime - dataTime) \div 15)
        Group(t, n, g) ==
            [Event(t, "AddToGroup", n) EXCEPT !.group = g, !.endpoint = 1]
        Command(t, g) == [Event(t, "SendGroupCommand", 0) EXCEPT !.group = g]
    IN  <<Event(Seconds(1), "NlmeNetworkFormationRequest", 0)>>
        \o [i \in 1..(c.numNodes - 1) |->
              Event(Seconds(3 + 2 * (i - 1)), "NlmeNetworkDiscoveryRequest", i)]
        \o (IF c.numNodes >= 5
            THEN <<Group(Seconds(groupTime), 4, GROUP_LIVING_ROOM),
                   Group(Seconds(groupTime) + tenth, 4, GROUP_ALL_LIGHTS)>>
            ELSE << >>)
        \o (IF c.numNodes >= 6
            THEN <<Group(Seconds(groupTime) + 2 * tenth, 5, GROUP_BEDROOM),
                   Group(Seconds(groupTime) + 3 * tenth, 5, GROUP_ALL_LIGHTS)>>
            ELSE << >>)
        \o (IF c.manyToOne \/ c.numNodes >= 4
            THEN <<Event(Seconds(routingTime), "NlmeRouteDiscoveryRequest", 0)>>
            ELSE << >>)
        \o (IF c.numNodes >= 4
            THEN [i \in 1..numReports |->
                    Event(Seconds(dataTime + (i - 1) * 15),
                          "SendTemperatureReading", c.numNodes - 1)]
            ELSE << >>)
        \o (IF c.numNodes >= 5
            THEN <<Command(Seconds(dataTime + 5), GROUP_LIVING_ROOM),
                   Command(Seconds(dataTime + 20), GROUP_ALL_LIGHTS),
                   Command(Seconds(dataTime + 35), GROUP_ALL_LIGHTS)>>
            ELSE << >>)
        \o <<Event(Seconds(c.simTime) - Seconds(1), "PrintPerformanceMetrics", 0),
             Event(Seconds(c.simTime), "Stop", 0)>>

\* smart-home-zigbee-complete.cc has six devices
NUM_DEVICES == 6

\* its configurations: a run that ends before the first send, and one that
\* sends a temperature reading and commands to the three groups
V1Configs ==
    { [ExtBase EXCEPT !.numNodes = NUM_DEVICES, !.simTime = 20],
      [ExtBase EXCEPT !.numNodes = NUM_DEVICES, !.simTime = 40] }

\* main() of smart-home-zigbee-complete.cc from "NETWORK FORMATION" to Simulator::Stop
MainV1(c) ==
    LET joinTime == 3 + 2 * (NUM_DEVICES - 1)
        groupTime == joinTime + 2
        routingTime == groupTime + 2
        dataTime == routingTime + 5
        tenth == Seconds(1) \div 10
        Group(k, n, g, ep) ==
            [Event(Seconds(groupTime) + k * tenth, "AddToGroup", n)
               EXCEPT !.group = g, !.endpoint = ep]
        Command(t, g) == [Event(Seconds(t), "SendGroupCommand", 0) EXCEPT !.group = g]
    IN  <<Event(Seconds(1), "NlmeNetworkFormationRequest", 0)>>
        \o [i \in 1..(NUM_DEVICES - 1) |->
              Event(Seconds(3 + 2 * (i - 1)), "NlmeNetworkDiscoveryRequest", i)]
        \o <<Group(0, 4, GROUP_LIVING_ROOM, 1), Group(1, 4, GROUP_LIVING_ROOM, 2),
              Group(2, 5, GROUP_BEDROOM, 1), Group(3, 4, GROUP_ALL_LIGHTS, 1),
              Group(4, 4, GROUP_ALL_LIGHTS, 2), Group(5, 5, GROUP_ALL_LIGHTS, 1)>>
        \o <<Event(Seconds(routingTime), "NlmeRouteDiscoveryRequest", 0)>>
        \o [i \in 1..5 |->
              Event(Seconds(dataTime + (i - 1) * 20), "SendTemperatureReading", 3)]
        \o <<Command(dataTime + 5, GROUP_LIVING_ROOM),
              Command(dataTime + 10, GROUP_BEDROOM),
              Command(dataTime + 15, GROUP_ALL_LIGHTS),
              Command(dataTime + 25, GROUP_ALL_LIGHTS)>>
        \o <<Event(Seconds(dataTime - 2), "TraceRoute", 0),
              Event(Seconds(dataTime - 1), "PrintAllRoutingTables", 0),
              Event(Seconds(c.simTime) - Seconds(1), "PrintStatistics", 0),
              Event(Seconds(c.simTime), "Stop", 0)>>

\* a configuration of smart-home-zigbee-complete-ver2.cc: its node count is
\* 1 + nRouters + nSensors + nLights, and no option is validated
Ver2Config(r, s, l, simTime, manyToOne) ==
    [numNodes |-> 1 + r + s + l, simTime |-> simTime,
     numPackets |-> ExtBase.numPackets, packetInterval |-> ExtBase.packetInterval,
     enableNoise |-> FALSE, enableFading |-> FALSE,
     noiseFloorDbm |-> ExtBase.noiseFloorDbm, nodeDistance |-> ExtBase.nodeDistance,
     pathLossExp |-> ExtBase.pathLossExp, manyToOne |-> manyToOne,
     nRouters |-> r, nSensors |-> s, nLights |-> l]

\* the light nodes of the large network
ManyLights == 22

\* its configurations: a router, a sensor and a light, sending one reading
\* and one group command; a sensor and a light without many-to-one
\* routing, ending before the first send; and a network of ManyLights lights
Ver2Small == Ver2Config(1, 1, 1, 30, TRUE)
Ver2NoRouting == Ver2Config(0, 1, 1, 14, FALSE)
Ver2Large == Ver2Config(0, 0, ManyLights, 42, TRUE)

Ver2Configs == {Ver2Small, Ver2NoRouting, Ver2Large}

\* joinTime of smart-home-zigbee-complete-ver2.cc when node k's discovery is
\* scheduled: 3.0 s, and 1.5 s more after each node
JoinTimeVer2Rounded(k) == Seconds(3) + (k - 1) * Seconds(1)

JoinTimeVer2(k) == Seconds(3) + (k - 1) * (3 * (Seconds(1) \div 2))

\* main() of smart-home-zigbee-complete-ver2.cc from "Network formation" to
\* Simulator::Stop
MainVer2(c) ==
    LET tenth == Seconds(1) \div 10
        groupTime == JoinTimeVer2(c.numNodes) + Seconds(2)
        lightStartIdx == 1 + c.nRouters + c.nSensors
        routingTime == groupTime + Seconds(2)
        dataTime == routingTime + Seconds(5)
        sensorStartIdx == 1 + c.nRouters
        Command(t) ==
            [Event(dataTime + Seconds(t), "SendGroupCommand", 0)
               EXCEPT !.group = GROUP_ALL_LIGHTS]
    IN  <<Event(Seconds(1), "NlmeNetworkFormationRequest", 0)>>
        \o [i \in 1..(c.numNodes - 1) |->
              Event(JoinTimeVer2(i), "NlmeNetworkDiscoveryRequest", i)]
        \o [k \in 1..c.nLights |->
              [Event(groupTime + (k - 1) * tenth, "ApsmeAddGroupRequest",
                     lightStartIdx + (k - 1))
                 EXCEPT !.group = GROUP_ALL_LIGHTS, !.endpoint = 1]]
        \o (IF c.manyToOne
            THEN <<Event(routingTime, "NlmeRouteDiscoveryRequest", 0)>>
            ELSE << >>)
        \o [k \in 1..(5 * c.nSensors) |->
              LET i == (k - 1) \div 5
                  j == (k - 1) % 5
              IN  Event(dataTime + Seconds(j * 20 + i * 5), "SendSensorDataV2",
                        sensorStartIdx + i)]
        \o <<Command(10), Command(30), Command(50),
              Event(Seconds(c.simTime) - Seconds(1), "PrintStatisticsV2", 0),
              Event(Seconds(c.simTime) - Seconds(1) \div 2, "ExportStatistics", 0),
              Event(Seconds(c.simTime), "Stop", 0)>>

\* g_stats as constructed: every counter 0, both timestamps Seconds(0)
InitStats ==
    [totalSent |-> 0, totalReceived |-> 0, totalDropped |-> 0,
     droppedByNoise |-> 0, droppedByFading |-> 0, droppedBySensitivity |-> 0,
     joinAttempts |-> 0, joinSuccesses |-> 0, routeDiscoveries |-> 0,
     groupCommands |-> 0, firstSend |-> 0, lastRecv |-> 0,
     coordinators |-> 0, routers |-> 0]

InitSamples == [snr |-> << >>, rxPower |-> << >>, fading |-> << >>, distance |-> << >>]

\* the external stack before any request
InitStack(c) ==
    [formed |-> FALSE,            \* the coordinator's network exists
     joined |-> {},               \* nodes whose join the stack accepted
     routers |-> {},              \* nodes asked to start as router
     members |-> {},              \* <<group, node>> memberships requested
     handed |-> {},               \* uids handed to ApsdeDataRequest
     lost |-> {},                 \* uids the stack will indicate nowhere
     failedConfirms |-> 0,        \* data confirms reporting a failure
     joinRequests |-> [n \in 0..(c.numNodes - 1) |-> 0],
     formationRequests |-> [n \in 0..(c.numNodes - 1) |-> 0],
     discoveryRequests |-> [n \in 0..(c.numNodes - 1) |-> 0],
     refused |-> {},              \* nodes a lifecycle request of which failed
     discoveryStart |-> [n \in 0..(c.numNodes - 1) |-> 0],
                                  \* when the node's discovery request ran
     routeRequests |-> [n \in 0..(c.numNodes - 1) |-> 0],
     groupRequests |-> << >>]     \* node, group, endpoint and time of each
                                  \* group-join request, in order

NoSnapshot == [taken |-> FALSE]

\* the program after main() scheduled its events, run on a stack that is
\* left `spent` faults fewer
InitRun(v, c, main, spent) ==
    /\ variant = v
    /\ cfg = c
    /\ now = 0
    /\ queue = Insert({}, 0, main)
    /\ nextSeq = Len(main)
    /\ running = "running"
    /\ stats = InitStats
    /\ sendTimes = << >>
    /\ delays = << >>
    /\ samples = InitSamples
    /\ globalUid = Uid0
    /\ rngDraws = 0
    /\ stack = InitStack(c)
    /\ faults = spent
    /\ report = NoSnapshot
    /\ csv = NoSnapshot

InitWith(v, c, main) == InitRun(v, c, main, 0)

\* main() of ver3, "Validate parameters": the minimum topology is one
\* coordinator and two routers
MinNodes == 3

\* main() returned 1 before creating a node or scheduling an event
InitRejected(v, c) ==
    /\ variant = v
    /\ cfg = c
    /\ now = 0
    /\ queue = {}
    /\ nextSeq = 0
    /\ running = "rejected"
    /\ stats = InitStats
    /\ sendTimes = << >>
    /\ delays = << >>
    /\ samples = InitSamples
    /\ globalUid = Uid0
    /\ rngDraws = 0
    /\ stack = InitStack(c)
    /\ faults = 0
    /\ report = NoSnapshot
    /\ csv = NoSnapshot

InitPrograms ==
    \/ \E c \in ExtConfigs : InitWith("ext", c, MainExt(c))
    \/ \E c \in Ver3Configs :
          IF c.numNodes < MinNodes
          THEN InitRejected("ver3", c)
          ELSE InitWith("ver3", c, MainVer3(c))
    \/ \E c \in V1Configs : InitWith("v1", c, MainV1(c))
    \/ \E c \in Ver2Configs :
          \* the large network is run on a stack without faults
          InitRun("ver2", c, MainVer2(c), IF c = Ver2Large THEN MaxFaults ELSE 0)

\* std::mt19937 g_rng(42) of zigbee-extended-sim.cc
rngSeed == 42

\* values std::random_device may return for std::mt19937 gen(rd()) of ver3
RandomDevice == {7, 8}

\* the seeds a program's generator can start from; smart-home-zigbee-complete.cc
\* has no generator
Seeds(v) ==
    CASE v = "ext" -> {rngSeed}
      [] v = "ver3" -> RandomDevice
      [] OTHER -> {0}

\* the second run before its first send
InitTwin(active, s) ==
    [active |-> active, seed |-> s, samples |-> InitSamples,
     stats |-> [droppedByNoise |-> 0, droppedByFading |-> 0,
                droppedBySensitivity |-> 0]]

\* one run
Init ==
    /\ InitPrograms
    /\ seed \in Seeds(variant)
    /\ twin = InitTwin(FALSE, seed)

\* two runs of the same program on the same configuration, each seeded as
\* the program seeds it
InitTwoRuns ==
    /\ InitPrograms
    /\ seed \in Seeds(variant)
    /\ \E s \in Seeds(variant) : twin = InitTwin(TRUE, s)

----------------------------------------------------------------------------
(* Helpers of the handlers *)

\* the scheduler pops the next event, advances the clock to it and inserts
\* the events the handler schedules
Run(evs) ==
    LET e == NextEvent
    IN  /\ now' = e.time
        /\ queue' = Insert(queue \ {e}, nextSeq, evs)
        /\ nextSeq' = nextSeq + Len(evs)

\* Simulator::ScheduleNow of a stack primitive for the node of the running event
ScheduleNow(kind) == Event(NextEvent.time, kind, NextEvent.node)

\* Create<Packet>: the uid of a packet created after the stack created `gap` others
CreatePacket(gap) == AddUid(globalUid, gap)

\* sendTimes[uid] = t: std::map::operator[] inserts or overwrites
PutSendTime(m, uid, t) == (uid :> t) @@ m

\* sendTimes.erase(uid)
EraseSendTime(m, uid) == [u \in DOMAIN m \ {uid} |-> m[u]]

\* (Simulator::Now() - sendTimes[uid]).GetMilliSeconds()
DelaySample(t, sent) == GetMilliSeconds(t - sent)

\* a channel that classifies no drop
CountDropNone(st, outcome) == st

\* the drop-cause counter SimulateChannel increments for an outcome
CountDrop(st, outcome) ==
    CASE outcome = "DroppedBySensitivity" ->
            [st EXCEPT !.droppedBySensitivity = @ + 1]
      [] outcome = "DroppedByFading" -> [st EXCEPT !.droppedByFading = @ + 1]
      [] outcome = "DroppedByNoise" -> [st EXCEPT !.droppedByNoise = @ + 1]
      [] OTHER -> st

\* the packet delivery ratio a report prints, 100.0 * received / sent or 0.0,
\* as the fraction <<numerator, denominator>> (the rounding of the double
\* division is left out)
Pdr(received, sent) ==
    [printed |-> "number",
     ratio |-> IF sent > 0 THEN <<100 * received, sent>> ELSE <<0, 1>>]

\* what a report reads from g_stats
Snapshot(st, t) ==
    [taken |-> TRUE, at |-> t,
     totalSent |-> st.totalSent, totalReceived |-> st.totalReceived,
     totalDropped |-> st.totalDropped, droppedByNoise |-> st.droppedByNoise,
     droppedByFading |-> st.droppedByFading,
     droppedBySensitivity |-> st.droppedBySensitivity,
     routeDiscoveries |-> st.routeDiscoveries,
     pdr |-> Pdr(st.totalReceived, st.totalSent)]

----------------------------------------------------------------------------
(* zigbee-extended-sim.cc: data transmission and callbacks *)

\* SendSensorData without the early return of a dropped send
SendSensorDataNoReturn(fadingDraw, noiseDraw, gap) ==
    /\ variant = "ext"
    /\ Dispatch("SendSensorData")
    /\ LET t == NextEvent.time
           ch == SimulateChannel(cfg, fadingDraw, noiseDraw)
           uid == CreatePacket(gap)
           counted == [stats EXCEPT !.totalSent = @ + 1,
                                    !.firstSend = IF @ = 0 THEN t ELSE @]
           sampled == CountDrop(counted, ch.outcome)
       IN  /\ samples' = [distance |-> Append(samples.distance, ch.distance),
                          snr |-> Append(samples.snr, ch.snrDb),
                          rxPower |-> Append(samples.rxPower, ch.rxPowerDbm),
                          fading |-> Append(samples.fading, ch.fadingCoef)]
           /\ rngDraws' = rngDraws + FadingDraws(cfg) + NoiseDraws(cfg)
           /\ stats' = IF ch.outcome = "Delivered" THEN sampled
                       ELSE [sampled EXCEPT !.totalDropped = @ + 1]
           /\ sendTimes' = PutSendTime(sendTimes, uid, t)
           /\ globalUid' = AddUid(uid, Uid1)
           /\ Run(<<[ScheduleNow("ApsdeDataRequest") EXCEPT !.uid = uid]>>)
    /\ UNCHANGED <<variant, cfg, seed, twin, running, delays, stack, faults, report, csv>>

\* std::mt19937 is a function of its seed: at the same position of the
\* stream, generators seeded alike return the same variates
SameStream(draw, twinDraw) == twin.seed = seed => twinDraw = draw

\* the second run evaluates the channel for the same send (the two runs draw
\* the same number of variates per send, so their stream positions agree)
TwinSend(ch) ==
    twin' = [twin EXCEPT
               !.samples = [distance |-> Append(@.distance, ch.distance),
                            snr |-> Append(@.snr, ch.snrDb),
                            rxPower |-> Append(@.rxPower, ch.rxPowerDbm),
                            fading |-> Append(@.fading, ch.fadingCoef)],
               !.stats = CountDrop(@, ch.outcome)]

\* SendSensorData that records the channel sample of a delivered send only
SendSensorDataSamplesDelivered(fadingDraw, noiseDraw, gap) ==
    /\ variant = "ext"
    /\ Dispatch("SendSensorData")
    /\ LET t == NextEvent.time
           ch == SimulateChannel(cfg, fadingDraw, noiseDraw)
           success == ch.outcome = "Delivered"
           uid == CreatePacket(gap)
           counted == [stats EXCEPT !.totalSent = @ + 1,
                                    !.firstSend = IF @ = 0 THEN t ELSE @]
           sampled == CountDrop(counted, ch.outcome)
       IN  /\ rngDraws' = rngDraws + FadingDraws(cfg) + NoiseDraws(cfg)
           /\ IF ~success
              THEN /\ stats' = [sampled EXCEPT !.totalDropped = @ + 1]
                   /\ Run(<< >>)
                   /\ UNCHANGED <<samples, sendTimes, globalUid>>
              ELSE /\ stats' = sampled
                   /\ samples' = [distance |-> Append(samples.distance, ch.distance),
                                  snr |-> Append(samples.snr, ch.snrDb),
                                  rxPower |-> Append(samples.rxPower, ch.rxPowerDbm),
                                  fading |-> Append(samples.fading, ch.fadingCoef)]
                   /\ sendTimes' = PutSendTime(sendTimes, uid, t)
                   /\ globalUid' = AddUid(uid, Uid1)
                   /\ Run(<<[ScheduleNow("ApsdeDataRequest") EXCEPT !.uid = uid]>>)
    /\ IF twin.active
       THEN \E f2 \in FadingSamples, n2 \in NoiseSamples :
               /\ SameStream(<<fadingDraw, noiseDraw>>, <<f2, n2>>)
               /\ TwinSend(SimulateChannel(cfg, f2, n2))
       ELSE UNCHANGED twin
    /\ UNCHANGED <<variant, cfg, seed, running, delays, stack, faults, report, csv>>

\* SendSensorData: count the send, evaluate the channel, drop or hand to the stack
SendSensorData(fadingDraw, noiseDraw, gap) ==
    /\ variant = "ext"
    /\ Dispatch("SendSensorData")
    /\ LET t == NextEvent.time
           ch == SimulateChannel(cfg, fadingDraw, noiseDraw)
           success == ch.outcome = "Delivered"
           uid == CreatePacket(gap)
           counted == [stats EXCEPT !.totalSent = @ + 1,
                                    !.firstSend = IF @ = 0 THEN t ELSE @]
           sampled == CountDrop(counted, ch.outcome)
       IN  /\ samples' = [distance |-> Append(samples.distance, ch.distance),
                          snr |-> Append(samples.snr, ch.snrDb),
                          rxPower |-> Append(samples.rxPower, ch.rxPowerDbm),
                          fading |-> Append(samples.fading, ch.fadingCoef)]
           /\ rngDraws' = rngDraws + FadingDraws(cfg) + NoiseDraws(cfg)
           /\ IF ~success
              THEN /\ stats' = [sampled EXCEPT !.totalDropped = @ + 1]
                   /\ Run(<< >>)
                   /\ UNCHANGED <<sendTimes, globalUid>>
              ELSE /\ stats' = sampled
                   /\ sendTimes' = PutSendTime(sendTimes, uid, t)
                   /\ globalUid' = AddUid(uid, Uid1)
                   /\ Run(<<[ScheduleNow("ApsdeDataRequest") EXCEPT !.uid = uid]>>)
    /\ IF twin.active
       THEN \E f2 \in FadingSamples, n2 \in NoiseSamples :
               /\ SameStream(<<fadingDraw, noiseDraw>>, <<f2, n2>>)
               /\ TwinSend(SimulateChannel(cfg, f2, n2))
       ELSE UNCHANGED twin
    /\ UNCHANGED <<variant, cfg, seed, running, delays, stack, faults, report, csv>>

\* OnDataReceived that leaves the entry of the indicated packet pending
OnDataReceivedKeepsEntry ==
    /\ variant = "ext"
    /\ Dispatch("DataIndication")
    /\ LET t == NextEvent.time
           uid == NextEvent.uid
       IN  /\ stats' = [stats EXCEPT !.totalReceived = @ + 1, !.lastRecv = t]
           /\ IF uid \in DOMAIN sendTimes
              THEN /\ delays' = Append(delays, DelaySample(t, sendTimes[uid]))
                   /\ UNCHANGED sendTimes
              ELSE UNCHANGED <<delays, sendTimes>>
    /\ Run(<< >>)
    /\ UNCHANGED <<variant, cfg, seed, twin, running, samples, globalUid, rngDraws, stack,
                   faults, report, csv>>

\* OnDataReceived: the APSDE-DATA.indication callback
OnDataReceived ==
    /\ variant = "ext"
    /\ Dispatch("DataIndication")
    /\ LET t == NextEvent.time
           uid == NextEvent.uid
       IN  /\ stats' = [stats EXCEPT !.totalReceived = @ + 1, !.lastRecv = t]
           /\ IF uid \in DOMAIN sendTimes
              THEN /\ delays' = Append(delays, DelaySample(t, sendTimes[uid]))
                   /\ sendTimes' = EraseSendTime(sendTimes, uid)
              ELSE UNCHANGED <<delays, sendTimes>>
    /\ Run(<< >>)
    /\ UNCHANGED <<variant, cfg, seed, twin, running, samples, globalUid, rngDraws, stack,
                   faults, report, csv>>

\* OnDataConfirm that takes a counted drop back on a successful confirm
OnDataConfirmUndoesDrop ==
    /\ variant = "ext"
    /\ Dispatch("DataConfirm")
    /\ stats' = IF NextEvent.status # "SUCCESS"
                THEN [stats EXCEPT !.totalDropped = @ + 1]
                ELSE [stats EXCEPT !.totalDropped = IF @ > 0 THEN @ - 1 ELSE @]
    /\ Run(<< >>)
    /\ UNCHANGED <<variant, cfg, seed, twin, running, sendTimes, delays, samples, globalUid,
                   rngDraws, stack, faults, report, csv>>

\* OnDataConfirm: the APSDE-DATA.confirm callback
OnDataConfirm ==
    /\ variant = "ext"
    /\ Dispatch("DataConfirm")
    /\ stats' = IF NextEvent.status # "SUCCESS"
                THEN [stats EXCEPT !.totalDropped = @ + 1]
                ELSE stats
    /\ Run(<< >>)
    /\ UNCHANGED <<variant, cfg, seed, twin, running, sendTimes, delays, samples, globalUid,
                   rngDraws, stack, faults, report, csv>>

\* OnNetworkFormation: prints only
OnNetworkFormation ==
    /\ variant = "ext"
    /\ Dispatch("NetworkFormationConfirm")
    /\ Run(<< >>)
    /\ UNCHANGED <<variant, cfg, seed, twin, running, stats, sendTimes, delays, samples,
                   globalUid, rngDraws, stack, faults, report, csv>>

\* OnNetworkDiscovery scanning again after a scan that found nothing
OnNetworkDiscoveryRetry ==
    /\ variant = "ext"
    /\ Dispatch("NetworkDiscoveryConfirm")
    /\ IF NextEvent.status = "SUCCESS" /\ NextEvent.nets > 0
       THEN Run(<<[ScheduleNow("NlmeJoinRequest") EXCEPT !.nets = NextEvent.nets]>>)
       ELSE Run(<<[ScheduleNow("NlmeNetworkDiscoveryRequest")
                     EXCEPT !.node = NextEvent.node]>>)
    /\ UNCHANGED <<variant, cfg, seed, twin, running, stats, sendTimes, delays,
                   samples, globalUid, rngDraws, stack, faults, report, csv>>

\* OnNetworkDiscovery joining whatever the scan reported
OnNetworkDiscoveryJoinAnyway ==
    /\ variant = "ext"
    /\ Dispatch("NetworkDiscoveryConfirm")
    /\ Run(<<[ScheduleNow("NlmeJoinRequest") EXCEPT !.nets = NextEvent.nets]>>)
    /\ UNCHANGED <<variant, cfg, seed, twin, running, stats, sendTimes, delays,
                   samples, globalUid, rngDraws, stack, faults, report, csv>>

\* OnNetworkDiscovery: join the first network found, if any
OnNetworkDiscovery ==
    /\ variant = "ext"
    /\ Dispatch("NetworkDiscoveryConfirm")
    /\ IF NextEvent.status = "SUCCESS" /\ NextEvent.nets > 0
       THEN Run(<<[ScheduleNow("NlmeJoinRequest") EXCEPT !.nets = NextEvent.nets]>>)
       ELSE Run(<< >>)
    /\ UNCHANGED <<variant, cfg, seed, twin, running, stats, sendTimes, delays, samples,
                   globalUid, rngDraws, stack, faults, report, csv>>

\* OnJoinConfirm that leaves the joined node an end device
OnJoinConfirmNoStart ==
    /\ variant = "ext"
    /\ Dispatch("JoinConfirm")
    /\ Run(<< >>)
    /\ UNCHANGED <<variant, cfg, seed, twin, running, stats, sendTimes, delays,
                   samples, globalUid, rngDraws, stack, faults, report, csv>>

\* OnJoinConfirm: start as a router after a successful join
OnJoinConfirm ==
    /\ variant = "ext"
    /\ Dispatch("JoinConfirm")
    /\ IF NextEvent.status = "SUCCESS"
       THEN Run(<<ScheduleNow("NlmeStartRouterRequest")>>)
       ELSE Run(<< >>)
    /\ UNCHANGED <<variant, cfg, seed, twin, running, stats, sendTimes, delays, samples,
                   globalUid, rngDraws, stack, faults, report, csv>>

\* OnRouteDiscovery: prints only
OnRouteDiscovery ==
    /\ variant = "ext"
    /\ Dispatch("RouteDiscoveryConfirm")
    /\ Run(<< >>)
    /\ UNCHANGED <<variant, cfg, seed, twin, running, stats, sendTimes, delays, samples,
                   globalUid, rngDraws, stack, faults, report, csv>>

\* PrintResults: the aggregated report
PrintResults ==
    /\ Dispatch("PrintResults")
    /\ report' = Snapshot(stats, NextEvent.time)
    /\ Run(<< >>)
    /\ UNCHANGED <<variant, cfg, seed, twin, running, stats, sendTimes, delays, samples,
                   globalUid, rngDraws, stack, faults, csv>>

\* ExportCSV: the exported row
ExportCSV ==
    /\ Dispatch("ExportCSV")
    /\ csv' = Snapshot(stats, NextEvent.time)
    /\ Run(<< >>)
    /\ UNCHANGED <<variant, cfg, seed, twin, running, stats, sendTimes, delays, samples,
                   globalUid, rngDraws, stack, faults, report>>

\* a stop event that lets the scheduler go on
StopIgnored ==
    /\ Dispatch("Stop")
    /\ Run(<< >>)
    /\ UNCHANGED <<variant, cfg, seed, twin, running, stats, sendTimes, delays, samples,
                   globalUid, rngDraws, stack, faults, report, csv>>

\* the event Simulator::Stop(Seconds(simTime)) scheduled: Run returns,
\* the events still queued never execute
Stop ==
    /\ Dispatch("Stop")
    /\ running' = "stopped"
    /\ Run(<< >>)
    /\ UNCHANGED <<variant, cfg, seed, twin, stats, sendTimes, delays, samples, globalUid,
                   rngDraws, stack, faults, report, csv>>

----------------------------------------------------------------------------
(* The external Zigbee stack: each primitive answers with its confirm and,
   for data, with indications at the receivers.  A fault is any answer
   other than the one a healthy network gives; a run has at most MaxFaults. *)

\* a node is on the network: the coordinator once formed, a device once joined
Up(n) == IF n = 0 THEN stack.formed ELSE n \in stack.joined

\* an event the stack raises `delay` ticks after the running primitive
Raise(delay, kind, node) == Event(NextEvent.time + delay, kind, node)

\* NLME-NETWORK-FORMATION.request on the coordinator
NlmeNetworkFormationRequest ==
    /\ Dispatch("NlmeNetworkFormationRequest")
    /\ \E ok \in BOOLEAN :
          /\ ~ok => faults < MaxFaults
          /\ faults' = IF ok THEN faults ELSE faults + 1
          /\ stack' = [stack EXCEPT
                         !.formed = ok,
                         !.formationRequests[NextEvent.node] = @ + 1,
                         !.refused = IF ok THEN @ ELSE @ \cup {NextEvent.node}]
          /\ Run(<<[Raise(LifecycleDelay, "NetworkFormationConfirm", NextEvent.node)
                      EXCEPT !.status = IF ok THEN "SUCCESS" ELSE "FAILURE"]>>)
    /\ UNCHANGED <<variant, cfg, seed, twin, running, stats, sendTimes, delays, samples,
                   globalUid, rngDraws, report, csv>>

\* NLME-NETWORK-DISCOVERY.request: the scan reports the networks it found
NlmeNetworkDiscoveryRequest ==
    /\ Dispatch("NlmeNetworkDiscoveryRequest")
    /\ \E status \in {"SUCCESS", "FAILURE"}, nets \in {0, 1},
          delay \in {LifecycleDelay, LongScanDelay} :
          LET healthy == IF stack.formed
                         THEN status = "SUCCESS" /\ nets = 1
                         ELSE status = "FAILURE" /\ nets = 0
              cost == (IF healthy THEN 0 ELSE 1)
                      + (IF delay = LifecycleDelay THEN 0 ELSE 1)
          IN  /\ nets = 1 => stack.formed /\ status = "SUCCESS"
              /\ faults + cost <= MaxFaults
              /\ faults' = faults + cost
              /\ stack' = [stack EXCEPT
                             !.discoveryRequests[NextEvent.node] = @ + 1,
                             !.discoveryStart[NextEvent.node] = NextEvent.time,
                             !.refused = IF status = "SUCCESS"
                                         THEN @ ELSE @ \cup {NextEvent.node}]
              /\ Run(<<[Raise(delay, "NetworkDiscoveryConfirm", NextEvent.node)
                          EXCEPT !.status = status, !.nets = nets]>>)
    /\ UNCHANGED <<variant, cfg, seed, twin, running, stats, sendTimes, delays, samples,
                   globalUid, rngDraws, report, csv>>

\* NLME-JOIN.request: association succeeds on a formed network with a valid PAN id
NlmeJoinRequest ==
    /\ Dispatch("NlmeJoinRequest")
    /\ LET ok == stack.formed /\ NextEvent.nets > 0
       IN  /\ stack' = [stack EXCEPT
                          !.joinRequests[NextEvent.node] = @ + 1,
                          !.joined = IF ok THEN @ \cup {NextEvent.node} ELSE @,
                          !.refused = IF ok THEN @ ELSE @ \cup {NextEvent.node}]
           /\ Run(<<[Raise(LifecycleDelay, "JoinConfirm", NextEvent.node)
                       EXCEPT !.status = IF ok THEN "SUCCESS" ELSE "FAILURE"]>>)
    /\ UNCHANGED <<variant, cfg, seed, twin, running, stats, sendTimes, delays, samples,
                   globalUid, rngDraws, faults, report, csv>>

\* NLME-START-ROUTER.request
NlmeStartRouterRequest ==
    /\ Dispatch("NlmeStartRouterRequest")
    /\ stack' = [stack EXCEPT !.routers = @ \cup {NextEvent.node}]
    /\ Run(<< >>)
    /\ UNCHANGED <<variant, cfg, seed, twin, running, stats, sendTimes, delays, samples,
                   globalUid, rngDraws, faults, report, csv>>

\* NLME-ROUTE-DISCOVERY.request
NlmeRouteDiscoveryRequest ==
    /\ Dispatch("NlmeRouteDiscoveryRequest")
    /\ \E ok \in BOOLEAN :
          LET healthy == ok = Up(NextEvent.node)
          IN  /\ ok => Up(NextEvent.node)
              /\ ~healthy => faults < MaxFaults
              /\ faults' = IF healthy THEN faults ELSE faults + 1
              /\ stack' = [stack EXCEPT !.routeRequests[NextEvent.node] = @ + 1]
              /\ Run(<<[Raise(LifecycleDelay, "RouteDiscoveryConfirm", NextEvent.node)
                          EXCEPT !.status = IF ok THEN "SUCCESS" ELSE "FAILURE"]>>)
    /\ UNCHANGED <<variant, cfg, seed, twin, running, stats, sendTimes, delays, samples,
                   globalUid, rngDraws, report, csv>>

\* APSME-ADD-GROUP.request: the node's group table gains the group
ApsmeAddGroupRequest ==
    /\ Dispatch("ApsmeAddGroupRequest")
    /\ stack' = [stack EXCEPT
                   !.members = @ \cup {<<NextEvent.group, NextEvent.node>>},
                   !.groupRequests =
                       Append(@, [node |-> NextEvent.node, group |-> NextEvent.group,
                                   endpoint |-> NextEvent.endpoint,
                                   time |-> NextEvent.time])]
    /\ Run(<< >>)
    /\ UNCHANGED <<variant, cfg, seed, twin, running, stats, sendTimes, delays, samples,
                   globalUid, rngDraws, faults, report, csv>>

\* the nodes a data request addresses: the coordinator (unicast), or the
\* members of the group (groupcast)
Receivers(e) ==
    IF e.group = 0 THEN {0}
    ELSE {m[2] : m \in {x \in stack.members : x[1] = e.group}} \ {e.node}

\* APSDE-DATA.request: indications at the receivers the frame reaches, and
\* a confirm at the sender; the confirm may report failure although the
\* frame was delivered (the acknowledgement was lost)
ApsdeDataRequest ==
    /\ Dispatch("ApsdeDataRequest")
    /\ LET e == NextEvent
           reachable == IF Up(e.node) THEN {n \in Receivers(e) : Up(n)} ELSE {}
       IN  \E D \in SUBSET reachable, d \in StackDelays,
              status \in {"SUCCESS", "FAILURE"} :
              LET cost == (IF D # reachable THEN 1 ELSE 0)
                          + (IF status = "FAILURE" /\ Up(e.node) THEN 1 ELSE 0)
                  ind == [n \in 1..Cardinality(D) |->
                            [Raise(d, "DataIndication", SortedSeq(D)[n])
                               EXCEPT !.uid = e.uid, !.group = e.group]]
                  conf == [Raise(ConfirmDelay, "DataConfirm", e.node)
                             EXCEPT !.uid = e.uid, !.status = status]
              IN  /\ ~Up(e.node) => status = "FAILURE"
                  /\ D = {} => d = 1
                  /\ faults + cost <= MaxFaults
                  /\ faults' = faults + cost
                  /\ stack' = [stack EXCEPT
                                 !.handed = @ \cup {e.uid},
                                 !.lost = IF D = {} THEN @ \cup {e.uid} ELSE @,
                                 !.failedConfirms = IF status = "FAILURE"
                                                    THEN @ + 1 ELSE @]
                  /\ Run(ind \o <<conf>>)
    /\ UNCHANGED <<variant, cfg, seed, twin, running, stats, sendTimes, delays, samples,
                   globalUid, rngDraws, report, csv>>

----------------------------------------------------------------------------
(* smart-home-zigbee-complete-ver3.cc: data transmission and callbacks.
   g_stats is held in the same record as the extended simulation's:
   packetsTransmitted is totalSent, packetsReceived totalReceived,
   packetsFailed totalDropped, packetsDroppedByNoise droppedByNoise,
   packetsDroppedByFading droppedByFading, firstPacketTime firstSend,
   lastPacketTime lastRecv, packetSendTimes sendTimes. *)

\* SendTemperatureReading: unicast to the coordinator behind the channel model
SendTemperatureReading(fadingDraw, noiseDraw, gap) ==
    /\ variant = "ver3"
    /\ Dispatch("SendTemperatureReading")
    /\ LET t == NextEvent.time
           ch == SimulateChannelEffects(NextEvent.node, fadingDraw, noiseDraw)
           channelSuccess == ch.outcome = "Delivered"
           uid == CreatePacket(gap)
           sampled == CountDrop(stats, ch.outcome)
       IN  /\ samples' = [samples EXCEPT !.snr = Append(@, ch.snrDb),
                                         !.fading = Append(@, ch.fadingCoef)]
           /\ rngDraws' = rngDraws + 3
           /\ IF ~channelSuccess
              THEN /\ stats' = [sampled EXCEPT !.totalSent = @ + 1,
                                               !.totalDropped = @ + 1]
                   /\ Run(<< >>)
                   /\ UNCHANGED <<sendTimes, globalUid>>
              ELSE /\ stats' = [sampled EXCEPT !.totalSent = @ + 1,
                                               !.firstSend = IF @ = 0 THEN t ELSE @]
                   /\ sendTimes' = PutSendTime(sendTimes, uid, t)
                   /\ globalUid' = AddUid(uid, Uid1)
                   /\ Run(<<[ScheduleNow("ApsdeDataRequest") EXCEPT !.uid = uid]>>)
    /\ IF twin.active
       THEN \E f2 \in FadingSamples, n2 \in NoiseSamples :
               /\ SameStream(<<fadingDraw, noiseDraw>>, <<f2, n2>>)
               /\ LET ch2 == SimulateChannelEffects(NextEvent.node, f2, n2)
                  IN  twin' = [twin EXCEPT
                                 !.samples.snr = Append(@, ch2.snrDb),
                                 !.samples.fading = Append(@, ch2.fadingCoef),
                                 !.stats = CountDrop(@, ch2.outcome)]
       ELSE UNCHANGED twin
    /\ UNCHANGED <<variant, cfg, seed, running, delays, stack, faults, report, csv>>

\* SendGroupCommand put behind the channel model as the unicast send is,
\* over the link of the farthest node
SendGroupCommandThroughChannel(gap) ==
    /\ variant = "ver3"
    /\ Dispatch("SendGroupCommand")
    /\ \E fadingDraw \in FadingSamples, noiseDraw \in NoiseSamples :
          LET ch == SimulateChannelEffects(cfg.numNodes - 1, fadingDraw, noiseDraw)
              uid == CreatePacket(gap)
              sampled == CountDrop(stats, ch.outcome)
          IN  /\ samples' = [samples EXCEPT !.snr = Append(@, ch.snrDb),
                                            !.fading = Append(@, ch.fadingCoef)]
              /\ rngDraws' = rngDraws + 3
              /\ IF ch.outcome # "Delivered"
                 THEN /\ stats' = [sampled EXCEPT !.totalSent = @ + 1,
                                                  !.totalDropped = @ + 1]
                      /\ Run(<< >>)
                      /\ UNCHANGED <<sendTimes, globalUid>>
                 ELSE /\ stats' = [sampled EXCEPT !.totalSent = @ + 1]
                      /\ sendTimes' = PutSendTime(sendTimes, uid, NextEvent.time)
                      /\ globalUid' = AddUid(uid, Uid1)
                      /\ Run(<<[ScheduleNow("ApsdeDataRequest")
                                  EXCEPT !.uid = uid, !.group = NextEvent.group]>>)
    /\ UNCHANGED <<variant, cfg, seed, twin, running, delays, stack, faults, report, csv>>

\* SendGroupCommand: groupcast, not subject to the channel model
SendGroupCommand(gap) ==
    /\ variant = "ver3"
    /\ Dispatch("SendGroupCommand")
    /\ LET uid == CreatePacket(gap)
       IN  /\ sendTimes' = PutSendTime(sendTimes, uid, NextEvent.time)
           /\ globalUid' = AddUid(uid, Uid1)
           /\ stats' = [stats EXCEPT !.totalSent = @ + 1]
           /\ Run(<<[ScheduleNow("ApsdeDataRequest")
                       EXCEPT !.uid = uid, !.group = NextEvent.group]>>)
    /\ UNCHANGED <<variant, cfg, seed, twin, running, delays, samples, rngDraws, stack,
                   faults, report, csv>>

\* AddToGroup: ask the stack to add the node's endpoint to the group
AddToGroup ==
    /\ variant = "ver3"
    /\ Dispatch("AddToGroup")
    /\ Run(<<[ScheduleNow("ApsmeAddGroupRequest")
                EXCEPT !.group = NextEvent.group, !.endpoint = NextEvent.endpoint]>>)
    /\ UNCHANGED <<variant, cfg, seed, twin, running, stats, sendTimes, delays, samples,
                   globalUid, rngDraws, stack, faults, report, csv>>

\* ApsDataIndication counting a packet only when its send time is known
ApsDataIndicationKnownOnly ==
    /\ variant = "ver3"
    /\ Dispatch("DataIndication")
    /\ LET t == NextEvent.time
           packetUid == NextEvent.uid
       IN  IF packetUid \in DOMAIN sendTimes
           THEN /\ stats' = [stats EXCEPT
                               !.totalReceived = @ + 1,
                               !.lastRecv = t,
                               !.groupCommands = IF NextEvent.group # 0
                                                 THEN @ + 1 ELSE @]
                /\ delays' = Append(delays, DelaySample(t, sendTimes[packetUid]))
                /\ sendTimes' = EraseSendTime(sendTimes, packetUid)
           ELSE UNCHANGED <<stats, delays, sendTimes>>
    /\ Run(<< >>)
    /\ UNCHANGED <<variant, cfg, seed, twin, running, samples, globalUid, rngDraws, stack,
                   faults, report, csv>>

\* ApsDataIndication
ApsDataIndication ==
    /\ variant = "ver3"
    /\ Dispatch("DataIndication")
    /\ LET t == NextEvent.time
           packetUid == NextEvent.uid
       IN  /\ stats' = [stats EXCEPT
                          !.totalReceived = @ + 1,
                          !.lastRecv = t,
                          !.groupCommands = IF NextEvent.group # 0 THEN @ + 1 ELSE @]
           /\ IF packetUid \in DOMAIN sendTimes
              THEN /\ delays' = Append(delays, DelaySample(t, sendTimes[packetUid]))
                   /\ sendTimes' = EraseSendTime(sendTimes, packetUid)
              ELSE UNCHANGED <<delays, sendTimes>>
    /\ Run(<< >>)
    /\ UNCHANGED <<variant, cfg, seed, twin, running, samples, globalUid, rngDraws, stack,
                   faults, report, csv>>

\* ApsDataConfirm
ApsDataConfirm ==
    /\ variant = "ver3"
    /\ Dispatch("DataConfirm")
    /\ stats' = IF NextEvent.status # "SUCCESS"
                THEN [stats EXCEPT !.totalDropped = @ + 1]
                ELSE stats
    /\ Run(<< >>)
    /\ UNCHANGED <<variant, cfg, seed, twin, running, sendTimes, delays, samples, globalUid,
                   rngDraws, stack, faults, report, csv>>

\* NwkNetworkFormationConfirm: prints only
NwkNetworkFormationConfirm ==
    /\ variant = "ver3"
    /\ Dispatch("NetworkFormationConfirm")
    /\ Run(<< >>)
    /\ UNCHANGED <<variant, cfg, seed, twin, running, stats, sendTimes, delays, samples,
                   globalUid, rngDraws, stack, faults, report, csv>>


\* NwkNetworkDiscoveryConfirm that requests the join without counting the
\* attempt
NwkNetworkDiscoveryConfirmUncounted(ub) ==
    /\ variant = "ver3"
    /\ Dispatch("NetworkDiscoveryConfirm")
    /\ IF NextEvent.status # "SUCCESS"
       THEN /\ Run(<< >>)
            /\ UNCHANGED running
       ELSE IF NextEvent.nets = 0 /\ ub = "fault"
       THEN /\ running' = "crashed"
            /\ Run(<< >>)
       ELSE /\ Run(<<[ScheduleNow("NlmeJoinRequest") EXCEPT !.nets = NextEvent.nets]>>)
            /\ UNCHANGED running
    /\ UNCHANGED <<variant, cfg, seed, twin, stats, sendTimes, delays, samples, globalUid,
                   rngDraws, stack, faults, report, csv>>

\* NwkNetworkDiscoveryConfirm: on SUCCESS reads m_netDescList[0] without
\* looking at the list's size.  On an empty list that read is undefined:
\* the process either faults, or goes on with whatever PAN id it read.
NwkNetworkDiscoveryConfirm(ub) ==
    /\ variant = "ver3"
    /\ Dispatch("NetworkDiscoveryConfirm")
    /\ IF NextEvent.status # "SUCCESS"
       THEN /\ Run(<< >>)
            /\ UNCHANGED <<running, stats>>
       ELSE IF NextEvent.nets = 0 /\ ub = "fault"
       THEN /\ running' = "crashed"
            /\ Run(<< >>)
            /\ UNCHANGED stats
       ELSE /\ stats' = [stats EXCEPT !.joinAttempts = @ + 1]
            /\ Run(<<[ScheduleNow("NlmeJoinRequest") EXCEPT !.nets = NextEvent.nets]>>)
            /\ UNCHANGED running
    /\ UNCHANGED <<variant, cfg, seed, twin, sendTimes, delays, samples, globalUid,
                   rngDraws, stack, faults, report, csv>>

\* NwkJoinConfirm
NwkJoinConfirm ==
    /\ variant = "ver3"
    /\ Dispatch("JoinConfirm")
    /\ IF NextEvent.status = "SUCCESS"
       THEN /\ stats' = [stats EXCEPT !.joinSuccesses = @ + 1]
            /\ Run(<<ScheduleNow("NlmeStartRouterRequest")>>)
       ELSE /\ Run(<< >>)
            /\ UNCHANGED stats
    /\ UNCHANGED <<variant, cfg, seed, twin, running, sendTimes, delays, samples,
                   globalUid, rngDraws, stack, faults, report, csv>>

\* NwkRouteDiscoveryConfirm: counts every confirm, whatever its status
NwkRouteDiscoveryConfirm ==
    /\ variant = "ver3"
    /\ Dispatch("RouteDiscoveryConfirm")
    /\ stats' = [stats EXCEPT !.routeDiscoveries = @ + 1]
    /\ Run(<< >>)
    /\ UNCHANGED <<variant, cfg, seed, twin, running, sendTimes, delays, samples,
                   globalUid, rngDraws, stack, faults, report, csv>>

\* PrintPerformanceMetrics: the aggregated report
PrintPerformanceMetrics ==
    /\ Dispatch("PrintPerformanceMetrics")
    /\ report' = Snapshot(stats, NextEvent.time)
    /\ Run(<< >>)
    /\ UNCHANGED <<variant, cfg, seed, twin, running, stats, sendTimes, delays, samples,
                   globalUid, rngDraws, stack, faults, csv>>

----------------------------------------------------------------------------
(* smart-home-zigbee-complete.cc: data transmission and callbacks.  It has
   no channel model, no pending map and registers no data-confirm
   callback; g_stats is held in the same record as the other programs'. *)

\* SendTemperatureReading (smart-home-zigbee-complete.cc)
SendTemperatureReadingV1(gap) ==
    /\ variant = "v1"
    /\ Dispatch("SendTemperatureReading")
    /\ LET uid == CreatePacket(gap)
       IN  /\ globalUid' = AddUid(uid, Uid1)
           /\ stats' = [stats EXCEPT !.totalSent = @ + 1]
           /\ Run(<<[ScheduleNow("ApsdeDataRequest") EXCEPT !.uid = uid]>>)
    /\ UNCHANGED <<variant, cfg, seed, twin, running, sendTimes, delays, samples, rngDraws,
                   stack, faults, report, csv>>

\* SendGroupCommand (smart-home-zigbee-complete.cc)
SendGroupCommandV1(gap) ==
    /\ variant = "v1"
    /\ Dispatch("SendGroupCommand")
    /\ LET uid == CreatePacket(gap)
       IN  /\ globalUid' = AddUid(uid, Uid1)
           /\ stats' = [stats EXCEPT !.totalSent = @ + 1]
           /\ Run(<<[ScheduleNow("ApsdeDataRequest")
                       EXCEPT !.uid = uid, !.group = NextEvent.group]>>)
    /\ UNCHANGED <<variant, cfg, seed, twin, running, sendTimes, delays, samples, rngDraws,
                   stack, faults, report, csv>>

\* AddToGroup issuing the request twice
AddToGroupV1Twice ==
    /\ variant = "v1"
    /\ Dispatch("AddToGroup")
    /\ LET request == [ScheduleNow("ApsmeAddGroupRequest")
                         EXCEPT !.group = NextEvent.group,
                                !.endpoint = NextEvent.endpoint]
       IN  Run(<<request, request>>)
    /\ UNCHANGED <<variant, cfg, seed, twin, running, stats, sendTimes, delays, samples,
                   globalUid, rngDraws, stack, faults, report, csv>>

\* AddToGroup (smart-home-zigbee-complete.cc)
AddToGroupV1 ==
    /\ variant = "v1"
    /\ Dispatch("AddToGroup")
    /\ Run(<<[ScheduleNow("ApsmeAddGroupRequest")
                EXCEPT !.group = NextEvent.group, !.endpoint = NextEvent.endpoint]>>)
    /\ UNCHANGED <<variant, cfg, seed, twin, running, stats, sendTimes, delays, samples,
                   globalUid, rngDraws, stack, faults, report, csv>>

\* ApsDataIndication (smart-home-zigbee-complete.cc)
ApsDataIndicationV1 ==
    /\ variant = "v1"
    /\ Dispatch("DataIndication")
    /\ stats' = [stats EXCEPT
                   !.totalReceived = @ + 1,
                   !.groupCommands = IF NextEvent.group # 0 THEN @ + 1 ELSE @]
    /\ Run(<< >>)
    /\ UNCHANGED <<variant, cfg, seed, twin, running, sendTimes, delays, samples, globalUid,
                   rngDraws, stack, faults, report, csv>>

\* the APSDE-DATA.confirm of a stack on which no confirm callback is set
DataConfirmV1 ==
    /\ variant = "v1"
    /\ Dispatch("DataConfirm")
    /\ Run(<< >>)
    /\ UNCHANGED <<variant, cfg, seed, twin, running, stats, sendTimes, delays, samples,
                   globalUid, rngDraws, stack, faults, report, csv>>

\* NwkNetworkFormationConfirm (smart-home-zigbee-complete.cc): prints only
NwkNetworkFormationConfirmV1 ==
    /\ variant = "v1"
    /\ Dispatch("NetworkFormationConfirm")
    /\ Run(<< >>)
    /\ UNCHANGED <<variant, cfg, seed, twin, running, stats, sendTimes, delays, samples,
                   globalUid, rngDraws, stack, faults, report, csv>>

\* NwkNetworkDiscoveryConfirm (smart-home-zigbee-complete.cc): the same
\* unguarded read of m_netDescList[0] as in ver3
NwkNetworkDiscoveryConfirmV1(ub) ==
    /\ variant = "v1"
    /\ Dispatch("NetworkDiscoveryConfirm")
    /\ IF NextEvent.status # "SUCCESS"
       THEN /\ Run(<< >>)
            /\ UNCHANGED <<running, stats>>
       ELSE IF NextEvent.nets = 0 /\ ub = "fault"
       THEN /\ running' = "crashed"
            /\ Run(<< >>)
            /\ UNCHANGED stats
       ELSE /\ stats' = [stats EXCEPT !.joinAttempts = @ + 1]
            /\ Run(<<[ScheduleNow("NlmeJoinRequest") EXCEPT !.nets = NextEvent.nets]>>)
            /\ UNCHANGED running
    /\ UNCHANGED <<variant, cfg, seed, twin, sendTimes, delays, samples, globalUid,
                   rngDraws, stack, faults, report, csv>>

\* NwkJoinConfirm (smart-home-zigbee-complete.cc)
NwkJoinConfirmV1 ==
    /\ variant = "v1"
    /\ Dispatch("JoinConfirm")
    /\ IF NextEvent.status = "SUCCESS"
       THEN /\ stats' = [stats EXCEPT !.joinSuccesses = @ + 1]
            /\ Run(<<ScheduleNow("NlmeStartRouterRequest")>>)
       ELSE /\ Run(<< >>)
            /\ UNCHANGED stats
    /\ UNCHANGED <<variant, cfg, seed, twin, running, sendTimes, delays, samples,
                   globalUid, rngDraws, stack, faults, report, csv>>

\* NwkRouteDiscoveryConfirm (smart-home-zigbee-complete.cc)
NwkRouteDiscoveryConfirmV1 ==
    /\ variant = "v1"
    /\ Dispatch("RouteDiscoveryConfirm")
    /\ stats' = [stats EXCEPT !.routeDiscoveries = @ + 1]
    /\ Run(<< >>)
    /\ UNCHANGED <<variant, cfg, seed, twin, running, sendTimes, delays, samples,
                   globalUid, rngDraws, stack, faults, report, csv>>

\* TraceRoute: prints the route, reads the stacks only
TraceRoute ==
    /\ Dispatch("TraceRoute")
    /\ Run(<< >>)
    /\ UNCHANGED <<variant, cfg, seed, twin, running, stats, sendTimes, delays, samples,
                   globalUid, rngDraws, stack, faults, report, csv>>

\* PrintAllRoutingTables: prints only
PrintAllRoutingTables ==
    /\ Dispatch("PrintAllRoutingTables")
    /\ Run(<< >>)
    /\ UNCHANGED <<variant, cfg, seed, twin, running, stats, sendTimes, delays, samples,
                   globalUid, rngDraws, stack, faults, report, csv>>

\* the "Packet Success Rate" PrintStatistics prints: the ratio, or "N/A"
\* when nothing was transmitted
SuccessRate(received, sent) ==
    IF sent > 0
    THEN [printed |-> "number", ratio |-> <<100 * received, sent>>]
    ELSE [printed |-> "N/A", ratio |-> << >>]

\* PrintStatistics: the report of smart-home-zigbee-complete.cc
PrintStatistics ==
    /\ Dispatch("PrintStatistics")
    /\ report' = [Snapshot(stats, NextEvent.time) EXCEPT
                    !.pdr = SuccessRate(stats.totalReceived, stats.totalSent)]
    /\ Run(<< >>)
    /\ UNCHANGED <<variant, cfg, seed, twin, running, stats, sendTimes, delays, samples,
                   globalUid, rngDraws, stack, faults, csv>>

----------------------------------------------------------------------------
(* smart-home-zigbee-complete-ver2.cc: data transmission and callbacks.
   ApplyChannelEffects is defined but never called, there is no pending
   map and no data-confirm callback; g_stats is held in the same record as
   the other programs', packetsTransmitted as totalSent and
   packetsReceived as totalReceived. *)

\* SendSensorData (smart-home-zigbee-complete-ver2.cc)
SendSensorDataV2(gap) ==
    /\ variant = "ver2"
    /\ Dispatch("SendSensorDataV2")
    /\ LET uid == CreatePacket(gap)
       IN  /\ globalUid' = AddUid(uid, Uid1)
           /\ stats' = [stats EXCEPT !.totalSent = @ + 1]
           /\ Run(<<[ScheduleNow("ApsdeDataRequest") EXCEPT !.uid = uid]>>)
    /\ UNCHANGED <<variant, cfg, seed, twin, running, sendTimes, delays, samples, rngDraws,
                   stack, faults, report, csv>>

\* SendGroupCommand (smart-home-zigbee-complete-ver2.cc)
SendGroupCommandV2(gap) ==
    /\ variant = "ver2"
    /\ Dispatch("SendGroupCommand")
    /\ LET uid == CreatePacket(gap)
       IN  /\ globalUid' = AddUid(uid, Uid1)
           /\ stats' = [stats EXCEPT !.totalSent = @ + 1]
           /\ Run(<<[ScheduleNow("ApsdeDataRequest")
                       EXCEPT !.uid = uid, !.group = NextEvent.group]>>)
    /\ UNCHANGED <<variant, cfg, seed, twin, running, sendTimes, delays, samples, rngDraws,
                   stack, faults, report, csv>>

\* ApsDataIndication (smart-home-zigbee-complete-ver2.cc)
ApsDataIndicationV2 ==
    /\ variant = "ver2"
    /\ Dispatch("DataIndication")
    /\ stats' = [stats EXCEPT
                   !.totalReceived = @ + 1,
                   !.groupCommands = IF NextEvent.group # 0 THEN @ + 1 ELSE @]
    /\ Run(<< >>)
    /\ UNCHANGED <<variant, cfg, seed, twin, running, sendTimes, delays, samples,
                   globalUid, rngDraws, stack, faults, report, csv>>

\* the APSDE-DATA.confirm of a stack on which no confirm callback is set
DataConfirmV2 ==
    /\ variant = "ver2"
    /\ Dispatch("DataConfirm")
    /\ Run(<< >>)
    /\ UNCHANGED <<variant, cfg, seed, twin, running, stats, sendTimes, delays, samples,
                   globalUid, rngDraws, stack, faults, report, csv>>

\* NwkNetworkFormationConfirm (smart-home-zigbee-complete-ver2.cc)
NwkNetworkFormationConfirmV2 ==
    /\ variant = "ver2"
    /\ Dispatch("NetworkFormationConfirm")
    /\ stats' = [stats EXCEPT
                   !.coordinators = IF NextEvent.status = "SUCCESS" THEN @ + 1 ELSE @]
    /\ Run(<< >>)
    /\ UNCHANGED <<variant, cfg, seed, twin, running, sendTimes, delays, samples,
                   globalUid, rngDraws, stack, faults, report, csv>>

\* NwkNetworkDiscoveryConfirm (smart-home-zigbee-complete-ver2.cc): reads
\* m_netDescList[0] without testing the list, and does nothing on failure
NwkNetworkDiscoveryConfirmV2(ub) ==
    /\ variant = "ver2"
    /\ Dispatch("NetworkDiscoveryConfirm")
    /\ IF NextEvent.status # "SUCCESS"
       THEN /\ Run(<< >>)
            /\ UNCHANGED <<running, stats>>
       ELSE IF NextEvent.nets = 0 /\ ub = "fault"
       THEN /\ running' = "crashed"
            /\ Run(<< >>)
            /\ UNCHANGED stats
       ELSE /\ stats' = [stats EXCEPT !.joinAttempts = @ + 1]
            /\ Run(<<[ScheduleNow("NlmeJoinRequest") EXCEPT !.nets = NextEvent.nets]>>)
            /\ UNCHANGED running
    /\ UNCHANGED <<variant, cfg, seed, twin, sendTimes, delays, samples, globalUid,
                   rngDraws, stack, faults, report, csv>>

\* NwkJoinConfirm (smart-home-zigbee-complete-ver2.cc)
NwkJoinConfirmV2 ==
    /\ variant = "ver2"
    /\ Dispatch("JoinConfirm")
    /\ IF NextEvent.status = "SUCCESS"
       THEN /\ stats' = [stats EXCEPT !.joinSuccesses = @ + 1, !.routers = @ + 1]
            /\ Run(<<ScheduleNow("NlmeStartRouterRequest")>>)
       ELSE /\ Run(<< >>)
            /\ UNCHANGED stats
    /\ UNCHANGED <<variant, cfg, seed, twin, running, sendTimes, delays, samples,
                   globalUid, rngDraws, stack, faults, report, csv>>

\* NwkRouteDiscoveryConfirm (smart-home-zigbee-complete-ver2.cc)
NwkRouteDiscoveryConfirmV2 ==
    /\ variant = "ver2"
    /\ Dispatch("RouteDiscoveryConfirm")
    /\ stats' = [stats EXCEPT !.routeDiscoveries = @ + 1]
    /\ Run(<< >>)
    /\ UNCHANGED <<variant, cfg, seed, twin, running, sendTimes, delays, samples,
                   globalUid, rngDraws, stack, faults, report, csv>>

\* the "Packet Delivery Ratio" line of smart-home-zigbee-complete-ver2.cc:
\* written only when something was transmitted
DeliveryRatioLine(received, sent) ==
    IF sent > 0
    THEN [printed |-> "number", ratio |-> <<100 * received, sent>>]
    ELSE [printed |-> "nothing", ratio |-> << >>]

\* PrintStatistics (smart-home-zigbee-complete-ver2.cc)
PrintStatisticsV2 ==
    /\ Dispatch("PrintStatisticsV2")
    /\ report' = [Snapshot(stats, NextEvent.time) EXCEPT
                    !.pdr = DeliveryRatioLine(stats.totalReceived, stats.totalSent)]
    /\ Run(<< >>)
    /\ UNCHANGED <<variant, cfg, seed, twin, running, stats, sendTimes, delays, samples,
                   globalUid, rngDraws, stack, faults, csv>>

\* ExportStatistics (smart-home-zigbee-complete-ver2.cc)
ExportStatistics ==
    /\ Dispatch("ExportStatistics")
    /\ csv' = [Snapshot(stats, NextEvent.time) EXCEPT
                 !.pdr = DeliveryRatioLine(stats.totalReceived, stats.totalSent)]
    /\ Run(<< >>)
    /\ UNCHANGED <<variant, cfg, seed, twin, running, stats, sendTimes, delays, samples,
                   globalUid, rngDraws, stack, faults, report>>

----------------------------------------------------------------------------
(* The run *)

\* packets the stack creates between two packets of the application
UidGaps == {Uid0}

\* the outcomes of reading element 0 of an empty descriptor list
UbOutcomes == {"fault", "garbage"}

Handlers(gaps) ==
    \/ \E f \in FadingSamples, n \in NoiseSamples, g \in gaps : SendSensorData(f, n, g)
    \/ OnDataReceived
    \/ OnDataConfirm
    \/ OnNetworkFormation
    \/ OnNetworkDiscovery
    \/ OnJoinConfirm
    \/ OnRouteDiscovery
    \/ PrintResults
    \/ ExportCSV
    \/ \E f \in FadingSamples, n \in NoiseSamples, g \in gaps :
          SendTemperatureReading(f, n, g)
    \/ \E g \in gaps : SendGroupCommand(g)
    \/ AddToGroup
    \/ ApsDataIndication
    \/ ApsDataConfirm
    \/ NwkNetworkFormationConfirm
    \/ \E ub \in UbOutcomes : NwkNetworkDiscoveryConfirm(ub)
    \/ NwkJoinConfirm
    \/ NwkRouteDiscoveryConfirm
    \/ PrintPerformanceMetrics
    \/ \E g \in gaps : SendTemperatureReadingV1(g)
    \/ \E g \in gaps : SendGroupCommandV1(g)
    \/ AddToGroupV1
    \/ ApsDataIndicationV1
    \/ DataConfirmV1
    \/ NwkNetworkFormationConfirmV1
    \/ \E ub \in UbOutcomes : NwkNetworkDiscoveryConfirmV1(ub)
    \/ NwkJoinConfirmV1
    \/ NwkRouteDiscoveryConfirmV1
    \/ TraceRoute
    \/ PrintAllRoutingTables
    \/ PrintStatistics
    \/ \E g \in gaps : SendSensorDataV2(g)
    \/ \E g \in gaps : SendGroupCommandV2(g)
    \/ ApsDataIndicationV2
    \/ DataConfirmV2
    \/ NwkNetworkFormationConfirmV2
    \/ \E ub \in UbOutcomes : NwkNetworkDiscoveryConfirmV2(ub)
    \/ NwkJoinConfirmV2
    \/ NwkRouteDiscoveryConfirmV2
    \/ PrintStatisticsV2
    \/ ExportStatistics
    \/ Stop

ZigbeeStack ==
    \/ NlmeNetworkFormationRequest
    \/ NlmeNetworkDiscoveryRequest
    \/ NlmeJoinRequest
    \/ NlmeStartRouterRequest
    \/ NlmeRouteDiscoveryRequest
    \/ ApsmeAddGroupRequest
    \/ ApsdeDataRequest

\* the same, when the stack may also have created 2^32 - 1 packets, so that
\* the uid counter has come back to the previous packet's uid
UidGapsWrap == {Uid0, <<UidHalf - 1, UidHalf - 1>>}

Next == Handlers(UidGaps) \/ ZigbeeStack

Spec == Init /\ [][Next]_vars

\* what SimStats holds: the counters and timestamps, the sample lists, the
\* latency samples and the pending map
SimStats == [stats |-> stats, samples |-> samples, delays |-> delays,
             sendTimes |-> sendTimes]

\* SimStats as constructed
InitSimStats == [stats |-> InitStats, samples |-> InitSamples, delays |-> << >>,
                 sendTimes |-> << >>]

\* a reset that leaves the pending map as it is
resetKeepsPending(s) ==
    [stats |-> [s.stats EXCEPT
                  !.totalSent = 0, !.totalReceived = 0, !.totalDropped = 0,
                  !.droppedByNoise = 0, !.droppedByFading = 0,
                  !.droppedBySensitivity = 0,
                  !.firstSend = Seconds(0), !.lastRecv = Seconds(0)],
     samples |-> [snr |-> << >>, rxPower |-> << >>, fading |-> << >>,
                  distance |-> << >>],
     delays |-> << >>,
     sendTimes |-> s.sendTimes]

\* SimStats::reset
reset(s) ==
    [stats |-> [s.stats EXCEPT
                  !.totalSent = 0, !.totalReceived = 0, !.totalDropped = 0,
                  !.droppedByNoise = 0, !.droppedByFading = 0,
                  !.droppedBySensitivity = 0,
                  !.firstSend = Seconds(0), !.lastRecv = Seconds(0)],
     samples |-> [snr |-> << >>, rxPower |-> << >>, fading |-> << >>,
                  distance |-> << >>],
     delays |-> << >>,
     sendTimes |-> << >>]

\* g_stats.reset() between two scenarios run in one process: the run of the
\* first scenario is over
Reset ==
    /\ variant = "ext"
    /\ running = "stopped"
    /\ LET r == reset(SimStats)
       IN  /\ stats' = r.stats
           /\ samples' = r.samples
           /\ delays' = r.delays
           /\ sendTimes' = r.sendTimes
    /\ UNCHANGED <<variant, cfg, seed, twin, now, queue, nextSeq, running, globalUid,
                   rngDraws, stack, faults, report, csv>>

NextReset == Next \/ Reset

\* the run, followed by resets of the statistics
SpecReset == Init /\ [][NextReset]_vars

\* two runs side by side
SpecTwoRuns == InitTwoRuns /\ [][Next]_vars

NextUidWrap == Handlers(UidGapsWrap) \/ ZigbeeStack

\* the run with a stack that may hand out a uid that is still pending
SpecUidWrap == Init /\ [][NextUidWrap]_vars

----------------------------------------------------------------------------
(* Vocabulary of the properties *)

Last(q) == q[Len(q)]

\* packets dropped by the channel model, by cause
ChannelDrops(st) == st.droppedByNoise + st.droppedByFading + st.droppedBySensitivity

\* sends the stack reported as failed: the aggregate drop counter counts
\* the channel drops and the failed confirms
ExternalStackFailures(st) == st.totalDropped - ChannelDrops(st)

\* the data requests waiting to be handed to the stack
DataRequests(q) == {e \in q : e.kind = "ApsdeDataRequest"}

\* the next step is a unicast application send
UnicastSendStep ==
    \/ Dispatch("SendSensorData")
    \/ variant = "ver3" /\ Dispatch("SendTemperatureReading")

\* the verdict of the channel sample the step recorded
RecordedVerdict ==
    IF variant = "ext"
    THEN ChannelVerdict(cfg, Last(samples'.rxPower), Last(samples'.snr),
                        Last(samples'.fading))
    ELSE ChannelVerdictV3(Last(samples'.snr), Last(samples'.fading))

\* the step is a unicast application send whose channel verdict is a drop
DroppedSendStep == UnicastSendStep /\ RecordedVerdict # "Delivered"

----------------------------------------------------------------------------
(* C1: in every reachable state, received + droppedByNoise + droppedByFading
   + droppedBySensitivity + the sends the stack reported as failed is at
   most sent: every sent packet has at most one terminal outcome. *)
C1_AtMostOneTerminalOutcome ==
    stats.totalReceived + ChannelDrops(stats) + ExternalStackFailures(stats)
        <= stats.totalSent

(* C2: in the extended simulation, whenever the pending-delivery map is
   empty, received + droppedBySensitivity + droppedByFading + droppedByNoise
   equals sent. *)
C2_AllAccountedWhenNothingPending ==
    (variant = "ext" /\ DOMAIN sendTimes = {})
        => stats.totalReceived + ChannelDrops(stats) = stats.totalSent

\* C2's case: one packet received, one dropped by the channel, none pending
C2_Witness ==
    /\ variant = "ext"
    /\ DOMAIN sendTimes = {}
    /\ stats.totalReceived >= 1
    /\ ChannelDrops(stats) >= 1

(* C3: a discovery-completion callback that reports zero discovered
   networks, whatever its status, issues no join request and leaves the
   join-attempt counter unchanged. *)
C3_NoJoinWithoutNetwork ==
    [][(Dispatch("NetworkDiscoveryConfirm") /\ NextEvent.nets = 0)
          => /\ stats'.joinAttempts = stats.joinAttempts
             /\ ~ \E e \in queue' : e.kind = "NlmeJoinRequest"]_vars

(* C4: a send of the extended simulation whose received power is below the
   receiver sensitivity is classified DroppedBySensitivity, whatever its
   SNR: it is not counted as a fading or noise drop and it is not
   delivered to the stack. *)
C4_SensitivityFloorPrecedence ==
    [][(Dispatch("SendSensorData") /\ Last(samples'.rxPower) < sensitivityDbm)
          => /\ stats'.droppedBySensitivity = stats.droppedBySensitivity + 1
             /\ stats'.droppedByFading = stats.droppedByFading
             /\ stats'.droppedByNoise = stats.droppedByNoise
             /\ sendTimes' = sendTimes
             /\ DataRequests(queue') = DataRequests(queue)]_vars

\* C4's case: a sample below the sensitivity with an SNR at or above the
\* threshold was classified as a sensitivity drop
C4_Witness ==
    /\ variant = "ext"
    /\ samples.rxPower # << >>
    /\ Last(samples.rxPower) < sensitivityDbm
    /\ Last(samples.snr) >= snrThresholdDb
    /\ stats.droppedBySensitivity >= 1
    /\ stats.droppedByFading = 0
    /\ stats.droppedByNoise = 0

(* C5, as amended: when the channel verdict of a unicast send is a drop, the
   stack's send primitive is not invoked and no pending entry is
   registered; the sent counter, the drop counters and the channel sample
   lists change, and the received counter, the latency samples, the packet
   uid counter and the stack do not. *)
C5_DroppedSendNeverReachesStack ==
    [][DroppedSendStep
          => /\ DataRequests(queue') = DataRequests(queue)
             /\ sendTimes' = sendTimes
             /\ globalUid' = globalUid
             /\ stack' = stack
             /\ delays' = delays
             /\ stats'.totalReceived = stats.totalReceived
             /\ stats'.totalSent = stats.totalSent + 1
             /\ stats'.totalDropped = stats.totalDropped + 1
             /\ ChannelDrops(stats') = ChannelDrops(stats) + 1
             /\ Len(samples'.snr) = Len(samples.snr) + 1]_vars

(* C5, as stated: when the channel verdict of a unicast send is a drop, the
   stack's send primitive is not invoked, no pending entry is registered,
   and only the sent counter and the drop counters change. *)
C5_OnlySentAndDropCountersChange ==
    [][DroppedSendStep
          => /\ DataRequests(queue') = DataRequests(queue)
             /\ sendTimes' = sendTimes
             /\ [stats' EXCEPT !.totalSent = stats.totalSent,
                               !.totalDropped = stats.totalDropped,
                               !.droppedByNoise = stats.droppedByNoise,
                               !.droppedByFading = stats.droppedByFading,
                               !.droppedBySensitivity = stats.droppedBySensitivity]
                  = stats
             /\ samples' = samples
             /\ UNCHANGED <<delays, globalUid, stack, report, csv>>]_vars

\* C5's case: the only send so far was dropped by the channel: its sample
\* is recorded, nothing is pending and the stack was handed nothing
C5_Witness ==
    /\ stats.totalSent = 1
    /\ stats.totalDropped = 1
    /\ ChannelDrops(stats) = 1
    /\ Len(samples.snr) = 1
    /\ DOMAIN sendTimes = {}
    /\ stack.handed = {}

(* C6: a pending delivery registered at t0 and completed at t1 records
   exactly one latency sample, equal to t1 - t0, and removes the entry. *)
C6_LatencyIsElapsedTime ==
    [][(Dispatch("DataIndication") /\ NextEvent.uid \in DOMAIN sendTimes)
          => /\ Len(delays') = Len(delays) + 1
             /\ Last(delays') * TicksPerMs = NextEvent.time - sendTimes[NextEvent.uid]
             /\ NextEvent.uid \notin DOMAIN sendTimes']_vars

(* C7: a receive indication whose packet uid is not in the pending map
   leaves the pending map and the latency samples unchanged, increments
   received by one, and the run goes on. *)
C7_UnknownUidIsCountedAndSkipped ==
    [][(Dispatch("DataIndication") /\ NextEvent.uid \notin DOMAIN sendTimes)
          => /\ sendTimes' = sendTimes
             /\ delays' = delays
             /\ stats'.totalReceived = stats.totalReceived + 1
             /\ running' = "running"
             /\ queue' = queue \ {NextEvent}]_vars

\* C7's case: an indication found no pending entry (more packets received
\* than latency samples), and events are still being processed
C7_Witness ==
    /\ stats.totalReceived > Len(delays)
    /\ running = "running"
    /\ queue # {}

(* C8: registering a pending delivery never overwrites the send timestamp
   of an entry still in flight, even when the packet's uid equals one that
   is still pending. *)
C8_RegisterNeverOverwrites ==
    [][\A u \in DOMAIN sendTimes \cap DOMAIN sendTimes' :
          sendTimes'[u] = sendTimes[u]]_vars

(* C9: every pending entry is eventually removed: at the end of the run the
   pending map holds no entry of a packet that never produced a receive
   indication. *)
C9_NoEntryOutlivesItsPacket ==
    running = "stopped" => DOMAIN sendTimes \cap stack.lost = {}

(* C10: in the snapshot of the final report of the extended simulation,
   with a loss-free channel and a stack that delivers every packet after a
   positive delay and reports no failure, every packet counted as sent is
   counted as received. *)
C10_FinalReportAccountsForEverySend ==
    (variant = "ext" /\ report.taken /\ faults = 0 /\ ChannelDrops(report) = 0)
        => report.totalSent
             = report.totalReceived + ChannelDrops(report)
               + ExternalStackFailures(report)

----------------------------------------------------------------------------
(* Determinism and channel classification *)

\* the drop-cause counters of a counter record
DropCauses(st) ==
    <<st.droppedBySensitivity, st.droppedByFading, st.droppedByNoise>>

\* C11: two runs of a program on the same configuration (the seed is whatever
\* the program seeds its generator with: neither program reads a seed
\* option) that receive the same stack callbacks record the same channel
\* samples and the same drop-cause counters.
C11_SameConfigurationSameRun ==
    twin.active =>
        /\ twin.samples = samples
        /\ DropCauses(twin.stats) = DropCauses(stats)

\* the verdict the classification rule gives a sample that passed the
\* sensitivity test
Classified(snrDb, threshold, fadingCoeff, fadingEnabled) ==
    IF snrDb < threshold
    THEN IF fadingCoeff < deepFade /\ fadingEnabled
         THEN "DroppedByFading"
         ELSE "DroppedByNoise"
    ELSE "Delivered"

\* the drop-cause counters after one more drop of the given cause
DropCausesAfter(st, outcome) ==
    <<st.droppedBySensitivity,
      st.droppedByFading + (IF outcome = "DroppedByFading" THEN 1 ELSE 0),
      st.droppedByNoise + (IF outcome = "DroppedByNoise" THEN 1 ELSE 0)>>

(* C12: a unicast send whose sample is at or above the sensitivity (ver3 has
   no sensitivity test, all its samples are past it) is classified
   DroppedByFading when its SNR is below the threshold, its fading
   coefficient below 0.5 and fading enabled, DroppedByNoise when its SNR is
   below the threshold otherwise, Delivered when the SNR is at or above the
   threshold; exactly the counter of that cause is incremented, and the
   packet is withheld from the stack exactly when one was. *)
C12_ClassificationAboveSensitivity ==
    [][(/\ UnicastSendStep
        /\ variant = "ext" => Last(samples'.rxPower) >= sensitivityDbm)
          => LET threshold == IF variant = "ext" THEN snrThresholdDb
                                                 ELSE SNR_THRESHOLD_DB
                 expected == Classified(Last(samples'.snr), threshold,
                                        Last(samples'.fading), cfg.enableFading)
             IN  /\ DropCauses(stats') = DropCausesAfter(stats, expected)
                 /\ (DataRequests(queue') = DataRequests(queue))
                        <=> (expected # "Delivered")]_vars

\* a fading coefficient of exactly 1.0
unitFading == 100

(* C13: with fading disabled by the configuration, every recorded fading
   sample is 1.0, every recorded received power is the transmit power minus
   the path loss (fading adds 0 dB), the generator has been drawn from at
   most once per send (the noise variate, none for fading), and no send has
   been counted as DroppedByFading. *)
C13_DisabledFadingIsInert ==
    (variant # "v1" /\ ~cfg.enableFading) =>
        /\ \A i \in DOMAIN samples.fading : samples.fading[i] = unitFading
        /\ \A i \in DOMAIN samples.rxPower :
              samples.rxPower[i]
                  = txPowerDbm - CalculatePathLoss(cfg, samples.distance[i])
        /\ rngDraws <= Len(samples.snr)
        /\ stats.droppedByFading = 0

----------------------------------------------------------------------------
(* The extended simulation with noise and fading disabled *)

\* the configuration disables noise and fading
Quiet == variant = "ext" /\ ~cfg.enableNoise /\ ~cfg.enableFading

\* the received power of a quiet channel at the configured distance
QuietRxPower == txPowerDbm - CalculatePathLoss(cfg, cfg.nodeDistance)

(* C14: with noise and fading disabled and the transmit power below the
   sensitivity plus the path loss at the nodes' distance, every send is a
   sensitivity drop: droppedBySensitivity = sent, nothing is received, the
   noise and fading drop counters are 0, and no packet is or was handed to
   the stack's send primitive. *)
C14_OutOfRangeDropsEverySend ==
    (/\ Quiet
     /\ txPowerDbm < sensitivityDbm + CalculatePathLoss(cfg, cfg.nodeDistance))
        => /\ stats.droppedBySensitivity = stats.totalSent
           /\ stats.totalReceived = 0
           /\ stats.droppedByNoise = 0
           /\ stats.droppedByFading = 0
           /\ DataRequests(queue) = {}
           /\ stack.handed = {}

\* C14's case: an out-of-range quiet run has made all its sends and stopped
C14_Witness ==
    /\ Quiet
    /\ txPowerDbm < sensitivityDbm + CalculatePathLoss(cfg, cfg.nodeDistance)
    /\ stats.totalSent = cfg.numPackets
    /\ stats.droppedBySensitivity = cfg.numPackets
    /\ running = "stopped"

(* C15: with noise and fading disabled, the nodes at the reference distance,
   the received power at or above the sensitivity and the SNR at or above
   the threshold, no send is dropped by the channel (the three drop-cause
   counters are 0) and every send has reached the send primitive: the sends
   counted are the requests waiting for the stack plus those it was handed. *)
C15_InRangeDeliversEverySend ==
    (/\ Quiet
     /\ cfg.nodeDistance = refDistance
     /\ QuietRxPower >= sensitivityDbm
     /\ QuietRxPower - noiseDisabledDbm >= snrThresholdDb)
        => /\ ChannelDrops(stats) = 0
           /\ stats.totalSent
                = Cardinality(DataRequests(queue)) + Cardinality(stack.handed)

\* C15's case: the 3-node quiet run at the reference distance has made all
\* its sends, each handed to the stack, and stopped
C15_Witness ==
    /\ Quiet
    /\ cfg.numNodes = 3
    /\ cfg.nodeDistance = refDistance
    /\ QuietRxPower >= sensitivityDbm
    /\ stats.totalSent = cfg.numPackets
    /\ Cardinality(stack.handed) = cfg.numPackets
    /\ running = "stopped"

\* the distances (cm) the logarithm is tabulated for
Distances == {100, 1000, 6000, 8000, 10000, 16000, 17088}

(* C16: with noise and fading disabled, the received power recorded for a
   send is never higher than the received power the same configuration
   gives at any shorter distance. *)
C16_RxPowerNeverRisesWithDistance ==
    Quiet =>
        \A i \in DOMAIN samples.rxPower :
            \A d1 \in Distances :
                d1 < samples.distance[i]
                    => samples.rxPower[i] <= txPowerDbm - CalculatePathLoss(cfg, d1)

----------------------------------------------------------------------------
(* Reports *)

\* the reports and exports written so far
Written == {snap \in {report, csv} : snap.taken}

(* C17: every report and every export shows, as its packet delivery ratio,
   the number 100 * received / sent of the counters it shows when sent is
   positive, and the number 0 when sent is 0. *)
C17_ReportedPdr ==
    \A snap \in Written :
        /\ snap.pdr.printed = "number"
        /\ snap.totalSent > 0
              => snap.pdr.ratio = <<100 * snap.totalReceived, snap.totalSent>>
        /\ snap.totalSent = 0 => snap.pdr.ratio = <<0, 1>>

----------------------------------------------------------------------------
(* Configuration validation *)

(* C18: a run configured with fewer nodes than the minimum topology is
   rejected before anything happens: no event is scheduled, the clock stays
   at 0 and every counter stays 0. *)
C18_TooFewNodesRejected ==
    cfg.numNodes < MinNodes =>
        /\ running = "rejected"
        /\ queue = {}
        /\ now = 0
        /\ stats = InitStats

----------------------------------------------------------------------------
(* Network lifecycle *)

\* the nodes of the run
Nodes == 0..(cfg.numNodes - 1)

\* the requests of a kind scheduled for a node and not yet run
Pending(kind, n) == Cardinality({e \in queue : e.kind = kind /\ e.node = n})

\* the lifecycle requests issued for a node so far: those the stack has run
\* and those scheduled, as <<formation, discovery, join>>
Issued(n) ==
    <<stack.formationRequests[n] + Pending("NlmeNetworkFormationRequest", n),
      stack.discoveryRequests[n] + Pending("NlmeNetworkDiscoveryRequest", n),
      stack.joinRequests[n] + Pending("NlmeJoinRequest", n)>>

\* at most one formation request, for the coordinator only; at most one
\* discovery and one join request for every other node
AtMostOneOfEach ==
    \A n \in Nodes :
        IF n = 0
        THEN Issued(n)[1] <= 1 /\ Issued(n)[2] = 0 /\ Issued(n)[3] = 0
        ELSE Issued(n)[1] = 0 /\ Issued(n)[2] <= 1 /\ Issued(n)[3] <= 1

(* C19: lifecycle failures are not retried.  In every state the coordinator
   has issued at most one formation request and every other node at most
   one discovery and at most one join request; and once the stack has
   failed a formation, discovery or join request of a node (its callback
   reports the failure), no step issues another lifecycle request for that
   node. *)
C19_NoLifecycleRetry ==
    /\ []AtMostOneOfEach
    /\ [][\A n \in stack.refused : Issued(n)' = Issued(n)]_vars

\* C19's case: the run is over, a node's discovery failed, its one discovery
\* request was never repeated and no join was attempted for it
C19_Witness ==
    /\ running = "stopped"
    /\ \E n \in stack.refused :
          /\ n # 0
          /\ stack.discoveryRequests[n] = 1
          /\ stack.joinRequests[n] = 0

(* C20: no join request is scheduled when the run starts, and a join request
   of a node is scheduled only by the step that runs that same node's
   discovery callback with status SUCCESS, whatever the other nodes'
   callbacks do in between. *)
C20_JoinOnlyAfterOwnDiscovery ==
    /\ \A e \in queue : e.kind # "NlmeJoinRequest"
    /\ [][\A e \in queue' \ queue :
              e.kind = "NlmeJoinRequest"
                  => /\ Dispatch("NetworkDiscoveryConfirm")
                     /\ NextEvent.node = e.node
                     /\ NextEvent.status = "SUCCESS"]_vars

\* C20's case: the join requests of two nodes are scheduled at once, the
\* second node's discovery callback having run between the first node's
\* discovery callback and its join
C20_Witness ==
    \E e1, e2 \in queue :
        /\ e1.kind = "NlmeJoinRequest"
        /\ e2.kind = "NlmeJoinRequest"
        /\ e1.node # e2.node

----------------------------------------------------------------------------
(* Phases of a node *)

\* the node has completed its lifecycle: the coordinator has formed the
\* network, another node has joined and was started as a router
Functional(n) ==
    IF n = 0 THEN stack.formed
    ELSE n \in stack.joined /\ n \in stack.routers

\* the next step issues a group-join request, a route-discovery request or
\* an application send on behalf of the node of the event
PhaseRequestStep ==
    \/ Dispatch("ApsmeAddGroupRequest")
    \/ Dispatch("NlmeRouteDiscoveryRequest")
    \/ Dispatch("SendSensorData")
    \/ Dispatch("SendSensorDataV2")
    \/ Dispatch("SendTemperatureReading")
    \/ Dispatch("SendGroupCommand")

(* C21: a group-join request, a route-discovery request and an application
   send are issued for a node only when that node is functional: the
   coordinator has formed the network, any other node has joined and runs
   as a router.  A node whose formation, discovery or join failed therefore
   issues none of them. *)
C21_RequestsOnlyFromFunctionalNodes ==
    [][PhaseRequestStep => Functional(NextEvent.node)]_vars

\* the router-start requests the step schedules
NewStartRouterRequests ==
    {e \in queue' \ queue : e.kind = "NlmeStartRouterRequest"}

(* C22: the step that runs a node's join callback with status SUCCESS
   schedules one router-start request, for that node and at the time of the
   callback; no other step schedules one (in particular not a join
   callback reporting failure); and no node ever has more than one
   router-start request, counting the one the stack has run and those
   still scheduled. *)
C22_RouterStartFollowsJoinSuccess ==
    /\ [](\A n \in Nodes :
            Pending("NlmeStartRouterRequest", n)
                + (IF n \in stack.routers THEN 1 ELSE 0) <= 1)
    /\ [][IF Dispatch("JoinConfirm") /\ NextEvent.status = "SUCCESS"
          THEN \E e \in NewStartRouterRequests :
                  /\ NewStartRouterRequests = {e}
                  /\ e.node = NextEvent.node
                  /\ e.time = NextEvent.time
          ELSE NewStartRouterRequests = {}]_vars

\* C22's case: the run is over; one node joined and was started as a
\* router, another node's only join request failed and it was not
C22_Witness ==
    /\ running = "stopped"
    /\ \E n \in stack.joined : n \in stack.routers
    /\ \E m \in stack.refused :
          /\ stack.joinRequests[m] = 1
          /\ m \notin stack.routers

----------------------------------------------------------------------------
(* The order of the phases in main()'s schedule *)

\* the group-join requests that have not reached the stack yet
PendingGroupRequests ==
    {e \in queue : e.kind \in {"AddToGroup", "ApsmeAddGroupRequest"}}

(* C23: when the coordinator's route-discovery request reaches the stack,
   every group-join request has reached it at an earlier virtual time: none
   is still scheduled, and none ran at the time of the route request. *)
C23_RouteDiscoveryAfterGroupRequests ==
    [][Dispatch("NlmeRouteDiscoveryRequest") =>
          /\ PendingGroupRequests = {}
          /\ \A k \in 1..Len(stack.groupRequests) :
                stack.groupRequests[k].time < NextEvent.time]_vars

(* C24: in a run that reached its stop time, the coordinator has issued one
   route-discovery request and no other node has issued any; and at no
   time has the coordinator more than one, issued or scheduled. *)
C24_OneRouteDiscoveryPerRun ==
    /\ stack.routeRequests[0] + Pending("NlmeRouteDiscoveryRequest", 0) <= 1
    /\ \A n \in Nodes \ {0} :
          stack.routeRequests[n] + Pending("NlmeRouteDiscoveryRequest", n) = 0
    /\ running = "stopped" => stack.routeRequests[0] = 1

\* the endpoints the programs configure
Endpoints == {1, 2}

\* the memberships a program can configure
Memberships ==
    Nodes \X {GROUP_LIVING_ROOM, GROUP_BEDROOM, GROUP_ALL_LIGHTS} \X Endpoints

\* the group-join requests of membership m = <<node, group, endpoint>>:
\* those the stack has run and those still scheduled
GroupRequestsOf(m) ==
    Cardinality({k \in 1..Len(stack.groupRequests) :
                    LET r == stack.groupRequests[k]
                    IN  <<r.node, r.group, r.endpoint>> = m})
    + Cardinality({e \in PendingGroupRequests :
                      <<e.node, e.group, e.endpoint>> = m})

\* the discovery requests still scheduled
PendingDiscoveries == {e \in queue : e.kind = "NlmeNetworkDiscoveryRequest"}

\* virtual time t is later than every node's discovery start
AfterEveryDiscovery(t) ==
    /\ \A e \in PendingDiscoveries : e.time < t
    /\ \A n \in Nodes \ {0} :
          stack.discoveryRequests[n] > 0 => stack.discoveryStart[n] < t

(* C25: no membership (node, group, endpoint) ever has more than one
   group-join request, run or scheduled, and no step adds a request to a
   membership or takes one away, so each membership main() configured has
   exactly one: it has been issued by the time the run stops.  Every
   group-join request, scheduled or run, has a time later than the
   discovery start of every node. *)
C25_OneGroupRequestPerMembership ==
    /\ [](\A m \in Memberships : GroupRequestsOf(m) <= 1)
    /\ [][\A m \in Memberships : GroupRequestsOf(m)' = GroupRequestsOf(m)]_vars
    /\ [](running = "stopped" => PendingGroupRequests = {})
    /\ [](\A e \in PendingGroupRequests : AfterEveryDiscovery(e.time))
    /\ [](\A k \in 1..Len(stack.groupRequests) :
            /\ PendingDiscoveries = {}
            /\ AfterEveryDiscovery(stack.groupRequests[k].time))

\* C25's case: the run is over and a node has been entered in the same
\* group on two endpoints, and in another group besides
C25_Witness ==
    /\ running = "stopped"
    /\ \E i, j, k \in 1..Len(stack.groupRequests) :
          LET a == stack.groupRequests[i]
              b == stack.groupRequests[j]
              c == stack.groupRequests[k]
          IN  /\ a.node = b.node /\ a.group = b.group /\ a.endpoint # b.endpoint
              /\ c.node = a.node /\ c.group # a.group

\* the time between the discovery starts of two consecutive nodes: 2 s,
\* 1.5 s in smart-home-zigbee-complete-ver2.cc
JoinIncrement ==
    IF variant = "ver2" THEN 3 * (Seconds(1) \div 2) ELSE Seconds(2)

\* the discovery start of node k according to the base and the increment
StaggeredStart(k) == Seconds(3) + (k - 1) * JoinIncrement

(* C26: the discovery request of the k-th device, scheduled or run, has
   the time 3 s + (k - 1) * increment, the increment being 2 s (1.5 s in
   ver2); so the discovery starts of two devices differ, the device with
   the larger index starting later, and all are later than the
   coordinator's formation request, which runs at 1 s. *)
C26_StaggeredDiscoveryStarts ==
    /\ [](\A e \in PendingDiscoveries : e.time = StaggeredStart(e.node))
    /\ [](\A n \in Nodes \ {0} :
            stack.discoveryRequests[n] > 0 =>
                /\ stack.discoveryStart[n] = StaggeredStart(n)
                /\ stack.discoveryStart[n] > Seconds(1)
                /\ \A m \in Nodes \ {0} :
                      (m < n /\ stack.discoveryRequests[m] > 0)
                          => stack.discoveryStart[m] < stack.discoveryStart[n])
    /\ [][Dispatch("NlmeNetworkFormationRequest") =>
            NextEvent.node = 0 /\ NextEvent.time = Seconds(1)]_vars

\* C26's case: a ver2 network of four or more nodes in which every device
\* has started its discovery
C26_Witness ==
    /\ variant = "ver2"
    /\ cfg.numNodes >= 4
    /\ \A n \in Nodes \ {0} : stack.discoveryRequests[n] = 1

----------------------------------------------------------------------------
(* Latency samples with several packets pending *)

(* C27: whatever other entries are pending, a receive indication whose uid
   is pending appends one latency sample, equal to the time of the
   indication minus the send time registered for that uid, and removes
   that entry and no other; an indication whose uid is not pending (the
   packet was already indicated at another receiver) appends no sample
   and leaves the pending entries as they are. *)
C27_SampleMatchesItsOwnSend ==
    [][Dispatch("DataIndication") /\ variant \in {"ext", "ver3"} =>
          IF NextEvent.uid \in DOMAIN sendTimes
          THEN /\ Len(delays') = Len(delays) + 1
               /\ SubSeq(delays', 1, Len(delays)) = delays
               /\ Last(delays') * TicksPerMs
                     = NextEvent.time - sendTimes[NextEvent.uid]
               /\ DOMAIN sendTimes' = DOMAIN sendTimes \ {NextEvent.uid}
               /\ \A u \in DOMAIN sendTimes' : sendTimes'[u] = sendTimes[u]
          ELSE /\ delays' = delays
               /\ sendTimes' = sendTimes]_vars

----------------------------------------------------------------------------
(* The end of the run *)

\* the stop time of the run
StopTime == Seconds(cfg.simTime)

\* what the handlers of the application write
Accounts == <<stats, samples, delays, sendTimes, report, csv>>

(* C28, as stated: every callback the scheduler executes, the stop itself
   aside, was scheduled at a time before simTime. *)
C28_NothingAtStopTimeRuns ==
    [][(running = "running" /\ queue # {} /\ NextEvent.kind # "Stop")
          => NextEvent.time < StopTime]_vars

(* C28, amended: no callback scheduled at a time after simTime executes,
   and of those scheduled at simTime only the ones scheduled before the
   stop was (a callback scheduled after it, such as the data request of a
   send that ran at simTime, stays in the queue); a send scheduled after
   simTime never increments sent; once the run has stopped, no counter,
   sample list, pending entry or report changes. *)
C28_NothingAfterStopRuns ==
    /\ [](now <= StopTime)
    /\ [][(running = "running" /\ queue # {}) =>
            /\ NextEvent.time <= StopTime
            /\ NextEvent.time = StopTime =>
                  \A e \in queue : e.kind = "Stop" => NextEvent.seq <= e.seq]_vars
    /\ [][stats'.totalSent # stats.totalSent => NextEvent.time <= StopTime]_vars
    /\ [][running = "stopped" => Accounts' = Accounts /\ queue' = queue]_vars

\* C28's case: the run has stopped after a send that ran at the stop time
\* was counted; its data request, and a send scheduled after the stop
\* time, are still in the queue
C28_Witness ==
    /\ running = "stopped"
    /\ stats.totalSent = NumPackets
    /\ \E e \in queue : e.kind = "ApsdeDataRequest" /\ e.time = StopTime
    /\ NumPackets > 2 =>
          \E e \in queue : e.kind = "SendSensorData" /\ e.time > StopTime

----------------------------------------------------------------------------
(* Group commands *)

\* the data requests the step hands to the stack
NewDataRequests == {e \in queue' \ queue : e.kind = "ApsdeDataRequest"}

(* C29: in the programs that send group commands (ver3, ver2 and
   smart-home-zigbee-complete.cc), a group-command send increments sent by
   one and hands one groupcast data request for the commanded group to the
   stack, at the time of the send; it draws nothing from the random
   generator, leaves the channel sample lists as they are and changes no
   drop counter. *)
C29_GroupCommandBypassesChannel ==
    [][Dispatch("SendGroupCommand") =>
          /\ stats'.totalSent = stats.totalSent + 1
          /\ \E e \in NewDataRequests :
                /\ NewDataRequests = {e}
                /\ e.group = NextEvent.group
                /\ e.group # 0
                /\ e.node = NextEvent.node
                /\ e.time = NextEvent.time
          /\ rngDraws' = rngDraws
          /\ samples' = samples
          /\ stats'.totalDropped = stats.totalDropped
          /\ DropCauses(stats') = DropCauses(stats)]_vars

\* C29's case: in ver3 with noise and fading enabled, a group command was
\* sent and indicated at a member, and the sends outnumber the channel
\* samples
C29_Witness ==
    /\ variant = "ver3"
    /\ cfg.enableNoise /\ cfg.enableFading
    /\ stats.groupCommands > 0
    /\ Len(samples.snr) < stats.totalSent

----------------------------------------------------------------------------
(* Route discoveries in the report *)

(* C30: in the programs that count route discoveries (ver3, ver2 and
   smart-home-zigbee-complete.cc), a route-discovery callback increases
   the count by one when it reports success and leaves it as it is when
   it reports a failure, and a report shows the count as it stands. *)
C30_RouteDiscoveriesCountSuccesses ==
    /\ [][(Dispatch("RouteDiscoveryConfirm") /\ variant # "ext") =>
            stats'.routeDiscoveries
                = stats.routeDiscoveries
                  + (IF NextEvent.status = "SUCCESS" THEN 1 ELSE 0)]_vars
    /\ [][(report' # report /\ variant # "ext") =>
            report'.routeDiscoveries = stats.routeDiscoveries]_vars

----------------------------------------------------------------------------
(* The statistics aggregator *)

(* C31: in every reachable state of the extended simulation, reset applied
   to the statistics yields the statistics as constructed: every packet
   and drop counter 0, every sample list and the pending map empty, both
   timestamps 0; and the step that resets leaves exactly that. *)
C31_ResetYieldsInitialState ==
    /\ [](variant = "ext" => reset(SimStats) = InitSimStats)
    /\ [][Reset => SimStats' = InitSimStats]_vars

\* C31's case: the run sent and received packets, as its report shows, and
\* the statistics have been reset after it
C31_Witness ==
    /\ variant = "ext"
    /\ running = "stopped"
    /\ report.taken /\ report.totalSent > 0 /\ report.totalReceived > 0
    /\ SimStats = InitSimStats

\* the cumulative counters of g_stats
Counters ==
    {"totalSent", "totalReceived", "totalDropped", "droppedByNoise",
     "droppedByFading", "droppedBySensitivity", "joinAttempts", "joinSuccesses",
     "routeDiscoveries", "groupCommands", "coordinators", "routers"}

\* sequence q is p with elements appended, or p itself
Extends(q, p) == Len(q) >= Len(p) /\ SubSeq(q, 1, Len(p)) = p

(* C32: every step other than a reset leaves each cumulative counter as
   it is or larger, and each sample list (SNR, received power, fading,
   distance, latency) as it is or with samples appended. *)
C32_CountersAndSamplesOnlyGrow ==
    [][Reset \/
       /\ \A c \in Counters : stats'[c] >= stats[c]
       /\ Extends(samples'.snr, samples.snr)
       /\ Extends(samples'.rxPower, samples.rxPower)
       /\ Extends(samples'.fading, samples.fading)
       /\ Extends(samples'.distance, samples.distance)
       /\ Extends(delays', delays)]_vars

\* C32's case: a run in which a packet was dropped by the channel and a
\* later one was delivered, confirmed and yielded a latency sample
C32_Witness ==
    /\ running = "stopped"
    /\ ChannelDrops(stats) > 0
    /\ stats.totalReceived > 0
    /\ stats.joinSuccesses > 0
    /\ Len(delays) > 0
    /\ Len(samples.snr) > 1

----------------------------------------------------------------------------
(* Path loss *)

\* the distances (cm) the path loss is evaluated at: the tabulated ones,
\* half the reference distance, zero and a negative distance
PathLossInputs == Distances \cup {-500, 0, 50}

(* C33: in both channel models the path loss of a distance at or below
   the reference distance, zero and negative distances included, is the
   reference path loss, and with a path-loss exponent that is not negative
   the path loss of no distance is below the reference path loss; a send
   between nodes closer than the reference distance is recorded with the
   received power the reference path loss gives. *)
C33_PathLossClampedAtReference ==
    /\ \A d \in PathLossInputs :
          /\ d <= refDistance => CalculatePathLoss(cfg, d) = refPathLossDb
          /\ cfg.pathLossExp >= 0 => CalculatePathLoss(cfg, d) >= refPathLossDb
          /\ d <= REFERENCE_DISTANCE => CalculatePathLossV3(d) = referenceLossDb
          /\ CalculatePathLossV3(d) >= referenceLossDb
    /\ (variant = "ext" /\ Quiet) =>
          \A i \in DOMAIN samples.rxPower :
              samples.distance[i] <= refDistance
                  => samples.rxPower[i] = txPowerDbm - refPathLossDb

\* C33's case: a send between two nodes at the same position was recorded
C33_Witness ==
    /\ variant = "ext"
    /\ Quiet
    /\ Len(samples.distance) > 0
    /\ samples.distance[1] = 0
    /\ cfg.pathLossExp > 0

----------------------------------------------------------------------------
(* Counter identities *)

\* the data-confirm callbacks that have run with a status other than
\* SUCCESS: the failed confirms the stack raised, less those still queued
FailedConfirmCallbacks ==
    stack.failedConfirms
        - Cardinality({e \in queue : e.kind = "DataConfirm" /\ e.status # "SUCCESS"})

(* C34: in every reachable state of the extended simulation and of ver3
   the aggregate drop counter is the sum of the drop-cause counters
   (sensitivity, fading, noise; ver3 has no sensitivity cause and its
   counter stays 0) and of the number of data-confirm callbacks that
   reported a failure. *)
C34_DroppedIsCausesPlusFailedConfirms ==
    variant \in {"ext", "ver3"} =>
        /\ stats.totalDropped
              = stats.droppedByNoise + stats.droppedByFading
                + stats.droppedBySensitivity + FailedConfirmCallbacks
        /\ variant = "ver3" => stats.droppedBySensitivity = 0

\* C34's case: the channel dropped a packet and a confirm callback
\* reported a failure
C34_Witness ==
    /\ variant \in {"ext", "ver3"}
    /\ stats.droppedByNoise + stats.droppedByFading + stats.droppedBySensitivity > 0
    /\ FailedConfirmCallbacks > 0

(* C35: in every reachable state of the extended simulation the SNR,
   received-power, fading and distance sample lists have one length, the
   value of totalSent: each send, dropped or delivered, added one sample
   of each kind. *)
C35_OneSampleOfEachKindPerSend ==
    variant = "ext" =>
        /\ Len(samples.snr) = stats.totalSent
        /\ Len(samples.rxPower) = stats.totalSent
        /\ Len(samples.fading) = stats.totalSent
        /\ Len(samples.distance) = stats.totalSent

\* C35's case: one send was dropped by the channel and another delivered
C35_Witness ==
    /\ variant = "ext"
    /\ ChannelDrops(stats) > 0
    /\ stats.totalReceived > 0
    /\ stats.totalSent >= 2
    /\ Len(samples.snr) = stats.totalSent

\* the sends that registered a pending delivery: those the channel model
\* did not drop
RegisteredSends == stats.totalSent - ChannelDrops(stats)

(* C36: in every reachable state of the extended simulation and of ver3
   there are at most as many latency samples as received packets, and the
   latency samples and the pending entries together are at most as many
   as the sends that registered a pending delivery. *)
C36_SamplesAndPendingBoundedBySends ==
    variant \in {"ext", "ver3"} =>
        /\ Len(delays) <= stats.totalReceived
        /\ Len(delays) + Cardinality(DOMAIN sendTimes) <= RegisteredSends

\* C36's case: a send was dropped by the channel, another yielded a
\* latency sample and a third is still pending
C36_Witness ==
    /\ variant \in {"ext", "ver3"}
    /\ ChannelDrops(stats) > 0
    /\ Len(delays) > 0
    /\ DOMAIN sendTimes # {}

(* C37: in the programs that send group commands (ver3, ver2 and
   smart-home-zigbee-complete.cc) the received counter never exceeds the
   transmitted counter, and every report shows a received count that is at
   most the transmitted count, so that its delivery ratio is at most 100 %
   and its loss rate, 100 - PDR, is not negative. *)
C37_ReceivedNeverExceedsTransmitted ==
    variant \in {"ver3", "ver2", "v1"} =>
        /\ stats.totalReceived <= stats.totalSent
        /\ report.taken => report.totalReceived <= report.totalSent

(* C38: in the programs that count joins (ver3, ver2 and
   smart-home-zigbee-complete.cc), in every reachable state the join
   successes are at most the join attempts, and the join attempts at most
   the number of nodes other than the coordinator. *)
C38_JoinCountersBounded ==
    variant \in {"ver3", "ver2", "v1"} =>
        /\ stats.joinSuccesses <= stats.joinAttempts
        /\ stats.joinAttempts <= cfg.numNodes - 1

\* C38's case: every device has attempted to join, one join failed and
\* another succeeded
C38_Witness ==
    /\ variant \in {"ver3", "ver2", "v1"}
    /\ stats.joinAttempts = cfg.numNodes - 1
    /\ stats.joinSuccesses > 0
    /\ stats.joinSuccesses < stats.joinAttempts
    /\ \A n \in Nodes \ {0} : stack.joinRequests[n] = 1

\* the fading coefficients (hundredths) a transmission may be given: the
\* draws, and a coefficient at the floor of the logarithm
FadingCoefficients == FadingSamples \cup {0}

\* the channel configurations with noise disabled, fading enabled or not,
\* at every tabulated distance
NoiseOffChannels ==
    { [c EXCEPT !.nodeDistance = d, !.enableFading = f] :
        c \in {k \in ExtConfigs : ~k.enableNoise}, d \in Distances, f \in BOOLEAN }

(* C39: in zigbee-extended-sim with noise disabled, droppedByNoise and
   droppedByFading stay 0 in every reachable state, and for every distance
   and every fading coefficient, with fading enabled or not, the channel's
   decision is delivery or a drop by sensitivity. *)
C39_NoiseOffDropsOnlyBySensitivity ==
    /\ (variant = "ext" /\ ~cfg.enableNoise)
          => (stats.droppedByNoise = 0 /\ stats.droppedByFading = 0)
    /\ \A c \in NoiseOffChannels, f \in FadingCoefficients, n \in NoiseSamples :
          SimulateChannel(c, f, n).outcome \in {"Delivered", "DroppedBySensitivity"}

\* C39's case: a run with noise disabled and fading enabled has recorded a
\* deep fade, dropped a send by sensitivity and delivered another
C39_Witness ==
    /\ variant = "ext"
    /\ ~cfg.enableNoise
    /\ cfg.enableFading
    /\ \E i \in DOMAIN samples.fading : samples.fading[i] < deepFade
    /\ stats.droppedBySensitivity > 0
    /\ stats.totalSent > ChannelDrops(stats)

====
